---- MODULE Spec2Model ----
(***************************************************************************)
(* rootbox-rs (Aeliux/penv): the launch orchestrator run_container, the    *)
(* PTY broker, the namespace controller, the mount controller and the     *)
(* overlay composer, as a two-process state machine (supervisor P and     *)
(* contained child C) over an abstract kernel.                            *)
(***************************************************************************)
EXTENDS Integers, Sequences, FiniteSets, TLC

\* ------------------------------------------------------------------ bounds
MaxExtras == 2      \* extra lower layers given on the command line
MaxOut == 2         \* bytes the contained command writes before it exits
MaxIn == 1          \* bytes available on host stdin
MaxChunk == 2       \* bytes one read() may return (the 4096-byte buffer, scaled)
PtyCap == 1         \* bytes the kernel buffers between slave and master
MaxBinds == 2       \* configured bind mounts
MaxArgs == 2        \* arguments of the contained command

\* ------------------------------------------------------------------ helpers
None == <<>>
Some(x) == <<x>>
IsSome(o) == o # <<>>
Get(o) == o[1]

Range(s) == {s[i] : i \in 1..Len(s)}
Min(a, b) == IF a < b THEN a ELSE b
Prefix(s, n) == SubSeq(s, 1, n)
Suffix(s, n) == SubSeq(s, n + 1, Len(s))
IsPrefix(s, t) == Len(s) <= Len(t) /\ SubSeq(t, 1, Len(s)) = s

RECURSIVE Reverse(_)
Reverse(s) == IF s = <<>> THEN <<>> ELSE Reverse(Tail(s)) \o <<Head(s)>>

RECURSIVE SelectVals(_, _)
SelectVals(s, keep) ==
    IF s = <<>> THEN <<>>
    ELSE (IF Head(s) \in keep THEN <<Head(s)>> ELSE <<>>) \o SelectVals(Tail(s), keep)

\* Paths: absolute or relative, as their components.
Path(abs, comps) == [abs |-> abs, comps |-> comps]
Abs(comps) == Path(TRUE, comps)
Rel(comps) == Path(FALSE, comps)

\* Path::join: an absolute argument replaces the base.
PathJoin(base, p) == IF p.abs THEN p ELSE Path(base.abs, base.comps \o p.comps)

\* Path::strip_prefix("/"): Ok(relative rest) for an absolute path, Err otherwise.
StripRootPrefix(p) == IF p.abs THEN Some(Rel(p.comps)) ELSE None

\* ------------------------------------------------------------------ Config
\* config.rs: the fields the launch pipeline reads, with their defaults.
DefaultConfig ==
    [ overlayfs |-> TRUE,
      user_namespace |-> TRUE,
      mount_namespace |-> TRUE,
      pid_namespace |-> TRUE,
      uts_namespace |-> TRUE,
      network_namespace |-> FALSE,
      pty_enabled |-> TRUE,
      parent_death_signal |-> TRUE,
      no_new_privs |-> TRUE,
      hostname |-> None,
      domainname |-> None,
      mount_proc |-> TRUE,
      mount_sys |-> TRUE,
      mount_dev |-> TRUE,
      mount_tmp |-> TRUE,
      make_root_private |-> TRUE,
      sys_readonly |-> TRUE,
      bind_mounts |-> <<>> ]

Toggles ==
    { "user_namespace", "mount_namespace", "pid_namespace", "uts_namespace",
      "network_namespace", "pty_enabled", "parent_death_signal", "no_new_privs",
      "mount_proc", "mount_sys", "mount_dev", "mount_tmp", "make_root_private",
      "sys_readonly" }

Flip(c, f) == [c EXCEPT ![f] = ~c[f]]

BindMounts ==
    { [ source |-> Abs(<<"host", "x">>), destination |-> Abs(<<"data", "y">>),
        readonly |-> FALSE, recursive |-> TRUE ],
      [ source |-> Abs(<<"host", "x">>), destination |-> Rel(<<"data">>),
        readonly |-> TRUE, recursive |-> FALSE ] }

RECURSIVE SeqsUpTo(_, _)
SeqsUpTo(S, n) ==
    IF n = 0 THEN {<<>>}
    ELSE LET shorter == SeqsUpTo(S, n - 1)
         IN  shorter \cup {Append(s, x) : s \in {t \in shorter : Len(t) = n - 1}, x \in S}

\* The configurations explored: the default, the default with one toggle
\* flipped, two toggles off together, names set, and bind mounts configured.
Configs ==
    {DefaultConfig}
      \cup {Flip(DefaultConfig, f) : f \in Toggles}
      \cup {Flip(Flip(DefaultConfig, "mount_namespace"), "make_root_private")}
      \cup {[DefaultConfig EXCEPT !.hostname = Some("box")]}
      \cup {[DefaultConfig EXCEPT !.hostname = Some("box"), !.domainname = Some("dom")]}
      \cup {[DefaultConfig EXCEPT !.bind_mounts = b] :
                b \in SeqsUpTo(BindMounts, MaxBinds) \ {<<>>}}

\* ------------------------------------------------------------------ inputs
CmdBytes == <<"h", "i", "!", "?">>
InBytes == <<"x", "y", "z">>
Layers == <<"A", "B", "C">>

\* Strings of the command line, as their bytes; "NUL" is the zero byte.
Command == <<"s", "h">>
Words == { <<"a">>, <<"b", "c">>, <<"d", "NUL", "e">> }

ImagePath == Abs(<<"img">>)
PersistPath == Abs(<<"persist">>)
LayerPath(l) == Abs(<<l>>)

\* main.rs Commands::Overlay: root_dir, extra_layers, persist.
OverlayArgs ==
    { [ root_dir |-> ImagePath,
        extra_layers |-> [i \in 1..n |-> LayerPath(Layers[i])],
        persist |-> p ] : n \in 0..MaxExtras, p \in {None, Some(PersistPath)} }

Ids == { [uid |-> 0, gid |-> 0], [uid |-> 1000, gid |-> 100] }


\* What the run is given: the host terminal, host stdin, the caller's ids,
\* whether the host root mount is shared, the subcommand, and the bytes the
\* contained command writes before it exits.
BaseInput ==
    [ stdin_tty |-> TRUE,
      stdin_data |-> <<>>,
      stdin_eof |-> FALSE,
      ids |-> [uid |-> 1000, gid |-> 100],
      host_shared |-> TRUE,
      overlay |-> None,
      cmd_out |-> Prefix(CmdBytes, 1),
      missing |-> {},
      command |-> Command,
      args |-> << <<"a">> >>,
      signals |-> FALSE ]

\* Every state of host stdin against every output of the command.
IoInputs ==
    { [BaseInput EXCEPT !.stdin_tty = t, !.stdin_data = d, !.stdin_eof = e,
                        !.cmd_out = o] :
        t \in BOOLEAN, e \in BOOLEAN,
        d \in {Prefix(InBytes, n) : n \in 0..MaxIn},
        o \in {Prefix(CmdBytes, n) : n \in 0..MaxOut} }

\* Every overlay command line.
OverlayInputs == { [BaseInput EXCEPT !.overlay = Some(o)] : o \in OverlayArgs }

\* Every caller and host mount table.
HostInputs ==
    { [BaseInput EXCEPT !.ids = i, !.host_shared = h] : i \in Ids, h \in BOOLEAN }

\* Every command line with a root directory or an extra layer that does not
\* exist, for enter and for overlay.
MissingInputs ==
    { [BaseInput EXCEPT !.missing = {ImagePath}] }
      \cup { [i EXCEPT !.missing = m] :
                i \in { j \in OverlayInputs : Len(Get(j.overlay).extra_layers) = MaxExtras },
                m \in (SUBSET ({ImagePath} \cup {LayerPath(Layers[k]) : k \in 1..MaxExtras}))
                        \ {{}} }

\* Every command and argument list, with and without a zero byte in them.
ExecInputs ==
    { [BaseInput EXCEPT !.command = c, !.args = a] :
        c \in {Command, <<"s", "NUL">>},
        a \in SeqsUpTo(Words, MaxArgs) }

\* A run during which signals are delivered to the supervisor, so that its
\* blocking calls can be interrupted (EINTR).
SignalInputs ==
    { [BaseInput EXCEPT !.signals = TRUE, !.stdin_data = Prefix(InBytes, MaxIn)] }

\* A run with a whole chunk of bytes pending on host stdin.
ChunkInputs ==
    { [BaseInput EXCEPT !.stdin_data = Prefix(InBytes, MaxChunk),
                        !.cmd_out = Prefix(CmdBytes, MaxOut)] }

Inputs ==
    IoInputs \cup OverlayInputs \cup HostInputs \cup MissingInputs \cup ExecInputs
      \cup SignalInputs \cup ChunkInputs

\* The runs explored: the default configuration under every input, and
\* every configuration under the base input of each caller.
Runs ==
    { <<DefaultConfig, i>> : i \in Inputs }
      \cup { <<c, [BaseInput EXCEPT !.ids = i]>> : c \in Configs, i \in Ids }
      \cup { <<c, i>> : c \in { d \in Configs : d.bind_mounts # <<>> },
                        i \in { j \in OverlayInputs :
                                   Get(j.overlay).extra_layers = <<>> } }

\* The runs explored for progress: the default configuration under every
\* state of host stdin and every output of the command.
LiveRuns == { <<DefaultConfig, i>> : i \in IoInputs \cup SignalInputs }

\* ------------------------------------------------------------------ state
VARIABLES
    config,        \* Config, cloned into every manager, never mutated
    input,         \* the environment of this run
    ppc,           \* position of the supervisor in run_container
    cpc,           \* position of the forked child ("none" before fork)
    pty_manager,   \* PtyManager of each process: master_fd, slave_fd, original_termios
    ns_manager,    \* NamespaceManager: outer_uid, outer_gid (None before construction)
    ofs_manager,   \* Option<OverlayFsManager> of each process
    fds,           \* PTY descriptors open in each process
    closes,        \* descriptors each process passed to close(), in order
    calls,         \* run_container steps each process invoked, in order
    sys,           \* system calls of the namespace controller, in order
    proc,          \* kernel state of each process
    hostTerm,      \* attributes of the host terminal: "orig" or "raw"
    tclog,         \* tcsetattr calls on the host terminal
    mounts,        \* mount calls that succeeded
    dirs,          \* overlay directories that exist
    rmlog,         \* removals of overlay scratch directories
    ptyOut,        \* bytes written to the slave, not yet read from the master
    stdoutW,       \* bytes the supervisor wrote to host stdout
    masterW,       \* bytes the supervisor wrote to the master
    stdinPos,      \* bytes of host stdin consumed
    cmdPos,        \* bytes the contained command has written
    readfds,       \* descriptors select() reported readable
    presult,       \* what run_container returned in the supervisor
    cstatus,       \* exit status of the child ("none" while it runs)
    wait_status,   \* what waitpid returned ("none" before)
    cresult,       \* the error run_container returned in the child ("none" before)
    pfault,        \* environment failures the supervisor met
    conf,          \* the Config value handed to to_file, if any
    file,          \* the content of the configuration file, if it exists
    saved,         \* what to_file returned ("none" before)
    loaded         \* what from_file returned, if it was called

vars ==
    << config, input, ppc, cpc, pty_manager, ns_manager, ofs_manager, fds, closes,
       calls, sys, proc, hostTerm, tclog, mounts, dirs, rmlog, ptyOut, stdoutW,
       masterW, stdinPos, cmdPos, readfds, presult, cstatus, wait_status, cresult,
       pfault, conf, file, saved, loaded >>

cfgVars == << conf, file, saved, loaded >>
inVars == << config, input, cfgVars >>
ioVars == << ptyOut, stdoutW, masterW, stdinPos, cmdPos, readfds >>
fsVars == << mounts, dirs, rmlog >>

\* pty.rs PtyManager::new
PtyManager_new ==
    [ master_fd |-> None, slave_fd |-> None, original_termios |-> None ]

\* mount.rs OverlayFsManager::new as called from run_overlay: the struct has
\* no field for the extra layers, and no scratch directory is made here.
OverlayFsManager_new(image_path, extra_layers, persist_path) ==
    [ image_path |-> image_path, persist_path |-> persist_path, temp_dirs |-> <<>> ]

\* main.rs run_enter / run_overlay: the overlay manager handed to run_container.
OfsArgument ==
    IF IsSome(input.overlay)
    THEN Some(OverlayFsManager_new(Get(input.overlay).root_dir,
                                   Get(input.overlay).extra_layers,
                                   Get(input.overlay).persist))
    ELSE None

\* The kernel state of a process at program start.
ProcInit ==
    [ uid |-> input.ids.uid, gid |-> input.ids.gid, pdeathsig |-> FALSE,
      unshared |-> {}, root_private |-> FALSE, no_new_privs |-> FALSE,
      chrooted |-> FALSE, session |-> FALSE, ctty |-> FALSE, stdio |-> {} ]

\* The state after construction, for a run drawn from runs.
InitOf(runs) ==
    /\ \E r \in runs : config = r[1] /\ input = r[2]
    /\ ppc = "run"
    /\ cpc = "none"
    /\ pty_manager = [P |-> PtyManager_new, C |-> PtyManager_new]
    /\ ns_manager = None
    /\ ofs_manager = [P |-> None, C |-> None]
    /\ fds = [P |-> {}, C |-> {}]
    /\ closes = [P |-> <<>>, C |-> <<>>]
    /\ calls = [P |-> <<>>, C |-> <<>>]
    /\ sys = [P |-> <<>>, C |-> <<>>]
    /\ proc = [P |-> ProcInit, C |-> ProcInit]
    /\ hostTerm = "orig"
    /\ tclog = <<>>
    /\ mounts = <<>>
    /\ dirs = {}
    /\ rmlog = <<>>
    /\ ptyOut = <<>>
    /\ stdoutW = <<>>
    /\ masterW = <<>>
    /\ stdinPos = 0
    /\ cmdPos = 0
    /\ readfds = {}
    /\ presult = "none"
    /\ cstatus = "none"
    /\ wait_status = "none"
    /\ cresult = "none"
    /\ pfault = {}

\* No configuration file is written or read during a launch.
NoConfigFile == conf = None /\ file = None /\ saved = "none" /\ loaded = None

Init == InitOf(Runs) /\ NoConfigFile

\* CheckedPaths with the extra layers left unchecked.
CheckedPaths_root_only ==
    IF IsSome(input.overlay) THEN << Get(input.overlay).root_dir >> ELSE << ImagePath >>

\* main.rs:145-150 main: the exit code for a result of run.
ExitCode(res) == IF res = "Ok" THEN 0 ELSE 1

\* main.rs run_enter / run_overlay: the paths checked with exists(), in the
\* order they are checked: the root directory, then each extra layer.
CheckedPaths ==
    IF IsSome(input.overlay)
    THEN << Get(input.overlay).root_dir >> \o Get(input.overlay).extra_layers
    ELSE << ImagePath >>

\* main.rs:187-204 run, into run_enter or run_overlay: a path that does not
\* exist is a PathError before anything is constructed; otherwise the overlay
\* manager (for overlay) is constructed and run_container is entered.
run ==
    /\ ppc = "run"
    /\ calls' = [calls EXCEPT !.P =
                    Append(@, IF IsSome(input.overlay) THEN "run_overlay" ELSE "run_enter")]
    /\ IF \E i \in 1..Len(CheckedPaths) : CheckedPaths[i] \in input.missing
       THEN /\ ppc' = "done"
            /\ presult' = "PathError"
            /\ UNCHANGED ofs_manager
       ELSE /\ ppc' = "setup_pty"
            /\ ofs_manager' = [ofs_manager EXCEPT !.P = OfsArgument]
            /\ UNCHANGED presult
    /\ UNCHANGED << inVars, cpc, pty_manager, ns_manager, fds, closes, sys, proc,
                    hostTerm, tclog, fsVars, ioVars, cstatus, wait_status, cresult,
                    pfault >>

\* ------------------------------------------------------------------ PTY broker
\* isatty(stdin) of a process whose stdin is the host's (sin = "host") or the slave.
IsATty(sin) == IF sin = "host" THEN input.stdin_tty ELSE TRUE

StdinOf(p) == IF "stdin" \in proc[p].stdio THEN "slave" ELSE "host"

\* pty.rs PtyManager::close: the descriptors it passes to close(), in order.
CloseCalls(pm) ==
    (IF IsSome(pm.master_fd) THEN <<Get(pm.master_fd)>> ELSE <<>>)
      \o (IF IsSome(pm.slave_fd) THEN <<Get(pm.slave_fd)>> ELSE <<>>)

\* Closed with the handles left in the manager.
Closed_kept(pm) == pm

\* pty.rs PtyManager::close: both handles taken.
Closed(pm) == [pm EXCEPT !.master_fd = None, !.slave_fd = None]

\* pty.rs PtyManager::restore_terminal: whether tcsetattr is called at all.
RestoreCalls(pm, sin) == IsSome(pm.original_termios) /\ IsATty(sin)

\* The host terminal after restore_terminal by a process with stdin sin.
TermAfterRestore(pm, sin, ok, term) ==
    IF RestoreCalls(pm, sin) /\ sin = "host" /\ ok THEN Get(pm.original_termios) ELSE term

TcAfterRestore(pm, sin, ok, who, log) ==
    IF RestoreCalls(pm, sin) /\ sin = "host"
    THEN Append(log, [by |-> who, attrs |-> Get(pm.original_termios), ok |-> ok])
    ELSE log

\* The mount namespace a process is in.
MntNs(p) == IF "mnt" \in proc[p].unshared THEN "new" ELSE "host"

\* mount.rs: dropping Vec<TempDir> removes each directory; a directory that is
\* a mount point in the remover's namespace stays (EBUSY, ignored by TempDir).
Busy(d, who, ms) ==
    \E i \in 1..Len(ms) :
        /\ ms[i].target = d
        /\ (ms[i].ns = MntNs(who) \/ (who = "P" /\ ms[i].visible_host))

DirsAfterDrop(tds, who, ds, ms) == ds \ {d \in Range(tds) : ~Busy(d, who, ms)}

\* The removals that take effect, in the order of the drop.
RECURSIVE Removed(_, _, _)
Removed(tds, who, ms) ==
    IF tds = <<>> THEN <<>>
    ELSE (IF Busy(Head(tds), who, ms) THEN <<>> ELSE << [dir |-> Head(tds), by |-> who] >>)
           \o Removed(Tail(tds), who, ms)

RmAfterDrop(tds, who, log, ms) == log \o Removed(tds, who, ms)

TempDirsOf(o) == IF IsSome(o) THEN Get(o).temp_dirs ELSE <<>>

\* impl Drop for PtyManager (close, then restore_terminal) and the drop of the
\* overlay manager, as run when run_container returns res in the supervisor.
\* ok: whether the tcsetattr of the restore succeeds; flt: the failures met in
\* the returning step; tc: the tcsetattr log at the return.
ParentReturns(res, pm, ofs, ok, flt, tc) ==
    /\ ppc' = "done"
    /\ presult' = res
    /\ pty_manager' = [pty_manager EXCEPT !.P = Closed(pm)]
    /\ closes' = [closes EXCEPT !.P = @ \o CloseCalls(pm)]
    /\ fds' = [fds EXCEPT !.P = @ \ Range(CloseCalls(pm))]
    /\ hostTerm' = TermAfterRestore(pm, "host", ok, hostTerm)
    /\ tclog' = TcAfterRestore(pm, "host", ok, "P", tc)
    /\ ofs_manager' = [ofs_manager EXCEPT !.P = None]
    /\ dirs' = DirsAfterDrop(TempDirsOf(ofs), "P", dirs, mounts)
    /\ rmlog' = RmAfterDrop(TempDirsOf(ofs), "P", rmlog, mounts)
    /\ pfault' = pfault \cup flt
                   \cup (IF RestoreCalls(pm, "host") /\ ~ok THEN {"restore"} ELSE {})

\* What a returning step of the supervisor leaves alone.
retFrame ==
    << inVars, cpc, ns_manager, sys, proc, mounts, ioVars, cstatus, wait_status,
       cresult >>

\* What a continuing step of the supervisor that only moves on leaves alone.
stepFrame ==
    << inVars, cpc, ns_manager, mounts, ioVars, cstatus, wait_status, cresult,
       presult, ofs_manager, dirs, rmlog >>

\* PtyDrop with the terminal restored before the handles are closed.
PtyDrop_restore_first == << "drop:restore_terminal", "drop:close" >>

\* pty.rs:288-293 impl Drop for PtyManager: close(), then restore_terminal().
PtyDrop == << "drop:close", "drop:restore_terminal" >>

\* Whether this step makes run_container return in process p, its locals dropped.
Returns(p) == IF p = "P" THEN ppc' = "done" ELSE cpc' = "exited" /\ cresult' # "none"

\* The step is invoked by process p; when run_container returns from it, the
\* PTY manager is dropped.
Called(p, step) ==
    calls' = [calls EXCEPT ![p] =
                 Append(@, step) \o (IF Returns(p) THEN PtyDrop ELSE <<>>)]

\* pty.rs PtyManager::setup_pty, called at main.rs:308.
setup_pty ==
    /\ ppc = "setup_pty"
    /\ \E got \in BOOLEAN, opened \in BOOLEAN, ok \in BOOLEAN :
        LET captured == IF input.stdin_tty /\ got THEN Some(hostTerm) ELSE None
            pm == [pty_manager.P EXCEPT !.original_termios = captured]
            nocap == IF input.stdin_tty /\ ~got THEN {"tcgetattr"} ELSE {}
        IN  IF ~config.pty_enabled
            THEN /\ ParentReturns("PtyError", pty_manager.P, ofs_manager.P, ok, {}, tclog)
                 /\ UNCHANGED retFrame
            ELSE IF ~opened
            THEN /\ ParentReturns("PtyError", pm, ofs_manager.P, ok,
                                  nocap \cup {"openpty"}, tclog)
                 /\ UNCHANGED retFrame
            ELSE /\ pty_manager' = [pty_manager EXCEPT
                        !.P = [pm EXCEPT !.master_fd = Some("master"),
                                         !.slave_fd = Some("slave")]]
                 /\ fds' = [fds EXCEPT !.P = {"master", "slave"}]
                 /\ ppc' = "ns_new"
                 /\ pfault' = pfault \cup nocap
                 /\ UNCHANGED << stepFrame, closes, hostTerm, tclog, sys, proc >>
    /\ Called("P", "setup_pty")

\* namespace.rs NamespaceManager::new, called at main.rs:311: getuid, getgid.
NamespaceManager_new ==
    /\ ppc = "ns_new"
    /\ ns_manager' = Some([outer_uid |-> proc.P.uid, outer_gid |-> proc.P.gid])
    /\ ppc' = "pdeathsig"
    /\ UNCHANGED << inVars, cpc, pty_manager, ofs_manager, fds, closes, calls, sys,
                    proc, hostTerm, tclog, fsVars, ioVars, presult, cstatus,
                    wait_status, cresult, pfault >>

Sys(op, arg, text, data, flags) ==
    [ op |-> op, arg |-> arg, text |-> text, data |-> data, flags |-> flags, ok |-> TRUE ]

\* The calls cs as attempted when the failAt-th fails (0: none fails).
Attempted(cs, failAt) ==
    IF failAt = 0 THEN cs
    ELSE Append(Prefix(cs, failAt - 1), [cs[failAt] EXCEPT !.ok = FALSE])

\* How many of the calls succeeded.
Succeeded(cs, failAt) == IF failAt = 0 THEN Len(cs) ELSE failAt - 1

\* setup_parent_death_signal with a failed prctl returned as an error.
setup_parent_death_signal_strict ==
    /\ ppc = "pdeathsig"
    /\ IF ~config.parent_death_signal
       THEN /\ ppc' = "userns"
            /\ UNCHANGED << sys, proc, stepFrame, pty_manager, fds, closes, hostTerm,
                            tclog, pfault >>
       ELSE \E set \in BOOLEAN, ok \in BOOLEAN :
              /\ sys' = [sys EXCEPT !.P = Append(@,
                            [Sys("prctl", "PR_SET_PDEATHSIG", "SIGKILL", <<>>, {})
                                EXCEPT !.ok = set])]
              /\ proc' = [proc EXCEPT !.P.pdeathsig = @ \/ set]
              /\ IF set
                 THEN /\ ppc' = "userns"
                      /\ UNCHANGED << stepFrame, pty_manager, fds, closes, hostTerm,
                                      tclog, pfault >>
                 ELSE /\ ParentReturns("NamespaceError", pty_manager.P,
                                       ofs_manager.P, ok, {"pdeathsig"}, tclog)
                      /\ UNCHANGED << inVars, cpc, ns_manager, mounts, ioVars,
                                      cstatus, wait_status, cresult >>
    /\ Called("P", "setup_parent_death_signal")

\* setup_parent_death_signal with the prctl made whatever the configuration.
setup_parent_death_signal_always ==
    /\ ppc = "pdeathsig"
    /\ ppc' = "userns"
    /\ \E ok \in BOOLEAN :
          /\ sys' = [sys EXCEPT !.P = Append(@,
                        [Sys("prctl", "PR_SET_PDEATHSIG", "SIGKILL", <<>>, {})
                            EXCEPT !.ok = ok])]
          /\ proc' = [proc EXCEPT !.P.pdeathsig = @ \/ ok]
    /\ UNCHANGED << stepFrame, pty_manager, fds, closes, hostTerm, tclog, pfault >>
    /\ Called("P", "setup_parent_death_signal")

\* namespace.rs NamespaceManager::setup_parent_death_signal: a failed prctl only warns.
setup_parent_death_signal ==
    /\ ppc = "pdeathsig"
    /\ ppc' = "userns"
    /\ IF ~config.parent_death_signal
       THEN UNCHANGED << sys, proc >>
       ELSE \E ok \in BOOLEAN :
              /\ sys' = [sys EXCEPT !.P = Append(@,
                            [Sys("prctl", "PR_SET_PDEATHSIG", "SIGKILL", <<>>, {})
                                EXCEPT !.ok = ok])]
              /\ proc' = [proc EXCEPT !.P.pdeathsig = @ \/ ok]
    /\ UNCHANGED << stepFrame, pty_manager, fds, closes, hostTerm, tclog, pfault >>
    /\ Called("P", "setup_parent_death_signal")

\* namespace.rs NamespaceManager::setup_uid_map: "0 <outer_uid> 1" to uid_map.
setup_uid_map(nm) ==
    << Sys("write", "uid_map", "", <<0, nm.outer_uid, 1>>, {}) >>

\* setup_gid_map with gid_map written before setgroups.
setup_gid_map_first(nm) ==
    << Sys("write", "gid_map", "", <<0, nm.outer_gid, 1>>, {}),
       Sys("write", "setgroups", "deny", <<>>, {}) >>

\* namespace.rs NamespaceManager::setup_gid_map: "deny" to setgroups, then
\* "0 <outer_gid> 1" to gid_map.
setup_gid_map(nm) ==
    << Sys("write", "setgroups", "deny", <<>>, {}),
       Sys("write", "gid_map", "", <<0, nm.outer_gid, 1>>, {}) >>

\* namespace.rs NamespaceManager::setup_user_namespace: the calls of a full run.
UserNamespaceCalls(nm) ==
    << Sys("unshare", "", "", <<>>, {"CLONE_NEWUSER"}) >>
      \o setup_uid_map(nm) \o setup_gid_map(nm)

\* The kernel's view of the caller's ids after the first n calls of cs
\* succeeded: unmapped ids read as the overflow id until a map is written.
IdsAfter(pr, cs, n) ==
    LET done == Prefix(cs, n)
        has(op, arg) == \E i \in 1..n : done[i].op = op /\ done[i].arg = arg
        un == \E i \in 1..n : done[i].op = "unshare"
    IN  [pr EXCEPT
            !.unshared = IF un THEN @ \cup {"user"} ELSE @,
            !.uid = IF has("write", "uid_map") THEN 0 ELSE IF un THEN 65534 ELSE @,
            !.gid = IF has("write", "gid_map") THEN 0 ELSE IF un THEN 65534 ELSE @]

\* setup_user_namespace with a failure of its calls only noted, the launch
\* going on to the next step.
setup_user_namespace_lenient ==
    /\ ppc = "userns"
    /\ LET nm == Get(ns_manager)
           cs == UserNamespaceCalls(nm)
       IN  IF ~config.user_namespace \/ nm.outer_uid = 0
           THEN UNCHANGED << sys, proc, pfault >>
           ELSE \E failAt \in 0..Len(cs) :
                  /\ sys' = [sys EXCEPT !.P = @ \o Attempted(cs, failAt)]
                  /\ proc' = [proc EXCEPT !.P = IdsAfter(@, cs, Succeeded(cs, failAt))]
                  /\ pfault' = pfault \cup (IF failAt = 0 THEN {} ELSE {"userns"})
    /\ ppc' = "namespaces"
    /\ UNCHANGED << stepFrame, pty_manager, fds, closes, hostTerm, tclog >>
    /\ Called("P", "setup_user_namespace")

\* setup_user_namespace without the check of the caller being root.
setup_user_namespace_as_root ==
    /\ ppc = "userns"
    /\ LET nm == Get(ns_manager)
           cs == UserNamespaceCalls(nm)
       IN  IF ~config.user_namespace
           THEN /\ ppc' = "namespaces"
                /\ UNCHANGED << sys, proc, stepFrame, pty_manager, fds, closes,
                                hostTerm, tclog, pfault >>
           ELSE \E failAt \in 0..Len(cs), ok \in BOOLEAN :
                  /\ sys' = [sys EXCEPT !.P = @ \o Attempted(cs, failAt)]
                  /\ proc' = [proc EXCEPT !.P = IdsAfter(@, cs, Succeeded(cs, failAt))]
                  /\ IF failAt = 0
                     THEN /\ ppc' = "namespaces"
                          /\ UNCHANGED << stepFrame, pty_manager, fds, closes,
                                          hostTerm, tclog, pfault >>
                     ELSE /\ ParentReturns("NamespaceError", pty_manager.P,
                                           ofs_manager.P, ok, {"userns"}, tclog)
                          /\ UNCHANGED << inVars, cpc, ns_manager, mounts, ioVars,
                                          cstatus, wait_status, cresult >>
    /\ Called("P", "setup_user_namespace")

\* namespace.rs NamespaceManager::setup_user_namespace, called at main.rs:317.
setup_user_namespace ==
    /\ ppc = "userns"
    /\ LET nm == Get(ns_manager)
           cs == UserNamespaceCalls(nm)
       IN  IF ~config.user_namespace \/ nm.outer_uid = 0
           THEN /\ ppc' = "namespaces"
                /\ UNCHANGED << sys, proc, stepFrame, pty_manager, fds, closes,
                                hostTerm, tclog, pfault >>
           ELSE \E failAt \in 0..Len(cs), ok \in BOOLEAN :
                  /\ sys' = [sys EXCEPT !.P = @ \o Attempted(cs, failAt)]
                  /\ proc' = [proc EXCEPT !.P = IdsAfter(@, cs, Succeeded(cs, failAt))]
                  /\ IF failAt = 0
                     THEN /\ ppc' = "namespaces"
                          /\ UNCHANGED << stepFrame, pty_manager, fds, closes,
                                          hostTerm, tclog, pfault >>
                     ELSE /\ ParentReturns("NamespaceError", pty_manager.P,
                                           ofs_manager.P, ok, {"userns"}, tclog)
                          /\ UNCHANGED << inVars, cpc, ns_manager, mounts, ioVars,
                                          cstatus, wait_status, cresult >>
    /\ Called("P", "setup_user_namespace")

\* NamespaceFlags without the flag of the UTS namespace.
NamespaceFlags_no_uts(c) ==
    (IF c.pid_namespace THEN {"CLONE_NEWPID"} ELSE {})
      \cup (IF c.network_namespace THEN {"CLONE_NEWNET"} ELSE {})

\* namespace.rs NamespaceManager::setup_namespaces: the clone flags asked for.
NamespaceFlags(c) ==
    (IF c.pid_namespace THEN {"CLONE_NEWPID"} ELSE {})
      \cup (IF c.uts_namespace THEN {"CLONE_NEWUTS"} ELSE {})
      \cup (IF c.network_namespace THEN {"CLONE_NEWNET"} ELSE {})

\* namespace.rs NamespaceManager::setup_namespaces: the hostname set, the
\* configured one or "rootbox".
HostnameFor(c) == IF IsSome(c.hostname) THEN Get(c.hostname) ELSE "rootbox"

\* namespace.rs setup_namespaces / set_hostname: the calls whose failure is an error.
NamespaceCalls(c) ==
    (IF NamespaceFlags(c) # {}
     THEN << Sys("unshare", "", "", <<>>, NamespaceFlags(c)) >> ELSE <<>>)
      \o (IF c.uts_namespace
          THEN << Sys("sethostname", HostnameFor(c), "", <<>>, {}) >> ELSE <<>>)

\* namespace.rs set_hostname: setdomainname, whose failure only warns.
DomainnameCalls(c, ok) ==
    IF c.uts_namespace /\ IsSome(c.domainname)
    THEN << [Sys("setdomainname", Get(c.domainname), "", <<>>, {}) EXCEPT !.ok = ok] >>
    ELSE <<>>

NsName(flag) ==
    CASE flag = "CLONE_NEWPID" -> "pid"
      [] flag = "CLONE_NEWUTS" -> "uts"
      [] flag = "CLONE_NEWNET" -> "net"
      [] flag = "CLONE_NEWNS" -> "mnt"
      [] OTHER -> "user"

\* The namespaces a process has left after the first n calls of cs succeeded.
UnsharedAfter(pr, cs, n) ==
    [pr EXCEPT !.unshared =
        @ \cup UNION {{NsName(f) : f \in cs[i].flags} :
                        i \in {j \in 1..n : cs[j].op = "unshare"}}]

\* namespace.rs NamespaceManager::setup_namespaces, called at main.rs:320.
setup_namespaces ==
    /\ ppc = "namespaces"
    /\ LET cs == NamespaceCalls(config)
       IN  \E failAt \in 0..Len(cs), dok \in BOOLEAN, ok \in BOOLEAN :
             /\ proc' = [proc EXCEPT !.P = UnsharedAfter(@, cs, Succeeded(cs, failAt))]
             /\ IF failAt = 0
                THEN /\ sys' = [sys EXCEPT !.P = @ \o cs \o DomainnameCalls(config, dok)]
                     /\ ppc' = "fork"
                     /\ UNCHANGED << stepFrame, pty_manager, fds, closes, hostTerm,
                                     tclog, pfault >>
                ELSE /\ sys' = [sys EXCEPT !.P = @ \o Attempted(cs, failAt)]
                     /\ ParentReturns("NamespaceError", pty_manager.P, ofs_manager.P,
                                      ok, {"namespaces"}, tclog)
                     /\ UNCHANGED << inVars, cpc, ns_manager, mounts, ioVars,
                                     cstatus, wait_status, cresult >>
    /\ Called("P", "setup_namespaces")

\* fork(2): the child is a copy of the caller, except that the parent-death
\* signal setting is cleared in the child (prctl(2), PR_SET_PDEATHSIG).
ForkedProc(pr) == [pr EXCEPT !.pdeathsig = FALSE]

\* main.rs:326 fork().
fork ==
    /\ ppc = "fork"
    /\ \E forked \in BOOLEAN, ok \in BOOLEAN :
        IF forked
        THEN /\ ppc' = "close_slave"
             /\ cpc' = "close_master"
             /\ pty_manager' = [pty_manager EXCEPT !.C = pty_manager.P]
             /\ ofs_manager' = [ofs_manager EXCEPT !.C = ofs_manager.P]
             /\ fds' = [fds EXCEPT !.C = fds.P]
             /\ proc' = [proc EXCEPT !.C = ForkedProc(proc.P)]
             /\ UNCHANGED << inVars, ns_manager, closes, sys, hostTerm, tclog, fsVars,
                             ioVars, presult, cstatus, wait_status, cresult, pfault >>
        ELSE /\ ParentReturns("ProcessError", pty_manager.P, ofs_manager.P, ok,
                              {"fork"}, tclog)
             /\ UNCHANGED retFrame
    /\ Called("P", "fork")

\* close_slave with the slave left open in the supervisor.
close_slave_kept ==
    /\ ppc = "close_slave"
    /\ ppc' = "set_raw_mode"
    /\ UNCHANGED << stepFrame, pty_manager, fds, closes, sys, proc, hostTerm, tclog,
                    pfault >>
    /\ Called("P", "close_slave")

\* main.rs:332 nix::unistd::close(slave_fd).ok() in the supervisor.
close_slave ==
    /\ ppc = "close_slave"
    /\ closes' = [closes EXCEPT !.P = Append(@, "slave")]
    /\ fds' = [fds EXCEPT !.P = @ \ {"slave"}]
    /\ ppc' = "set_raw_mode"
    /\ UNCHANGED << stepFrame, pty_manager, sys, proc, hostTerm, tclog, pfault >>
    /\ Called("P", "close_slave")

\* pty.rs PtyManager::set_raw_mode, called at main.rs:335: tcgetattr,
\* cfmakeraw, tcsetattr on host stdin when it is a terminal.
set_raw_mode ==
    /\ ppc = "set_raw_mode"
    /\ IF ~IsATty("host")
       THEN /\ ppc' = "io_loop"
            /\ UNCHANGED << stepFrame, pty_manager, fds, closes, sys, proc, hostTerm,
                            tclog, pfault >>
       ELSE \E got \in BOOLEAN, set \in BOOLEAN, ok \in BOOLEAN :
              IF got /\ set
              THEN /\ hostTerm' = "raw"
                   /\ tclog' = Append(tclog, [by |-> "P", attrs |-> "raw", ok |-> TRUE])
                   /\ ppc' = "io_loop"
                   /\ UNCHANGED << stepFrame, pty_manager, fds, closes, sys, proc, pfault >>
              ELSE /\ ParentReturns("PtyError", pty_manager.P, ofs_manager.P, ok,
                                    {"set_raw_mode"},
                                    IF got
                                    THEN Append(tclog, [by |-> "P", attrs |-> "raw",
                                                        ok |-> FALSE])
                                    ELSE tclog)
                   /\ UNCHANGED retFrame
    /\ Called("P", "set_raw_mode")

\* ------------------------------------------------------------------ I/O loop
\* Whether any handle on the slave side of the PTY is still open.
SlaveOpen == "slave" \in fds.P \/ "slave" \in fds.C \/ proc.C.stdio # {}

\* select(): the master is readable when output is pending or the slave side
\* is closed (the read then reports EIO); stdin when it has data or is at EOF.
MasterReadable == ptyOut # <<>> \/ ~SlaveOpen
StdinAvail == Len(input.stdin_data) - stdinPos
StdinReadable == StdinAvail > 0 \/ input.stdin_eof
ReadySet ==
    (IF StdinReadable THEN {"stdin"} ELSE {})
      \cup (IF MasterReadable THEN {"master"} ELSE {})

\* What the proxy loop leaves alone.
loopFrame ==
    << inVars, cpc, pty_manager, ns_manager, ofs_manager, fds, closes, sys, proc,
       hostTerm, tclog, fsVars, cmdPos, presult, cstatus, wait_status, cresult >>

\* pty.rs PtyManager::io_loop_blocking, called at main.rs:338.
io_loop_blocking ==
    /\ ppc = "io_loop"
    /\ ppc' = "select"
    /\ UNCHANGED << loopFrame, ptyOut, stdoutW, masterW, stdinPos, readfds, pfault >>
    /\ Called("P", "io_loop_blocking")

\* pty.rs:214-215 select on stdin and the master returns the ready set; it
\* blocks while neither is readable (EINTR retries and changes nothing).
select_returns ==
    /\ ppc = "select"
    /\ ReadySet # {}
    /\ readfds' = ReadySet
    /\ ppc' = IF "stdin" \in ReadySet THEN "io_stdin" ELSE "io_master"
    /\ UNCHANGED << loopFrame, calls, ptyOut, stdoutW, masterW, stdinPos, pfault >>

\* pty.rs:216 select is interrupted by a signal (EINTR): `continue`, the
\* loop selects again. One interruption is followed per run.
select_interrupted ==
    /\ ppc = "select"
    /\ input.signals /\ "select_EINTR" \notin pfault
    /\ ppc' = "select"
    /\ pfault' = pfault \cup {"select_EINTR"}
    /\ UNCHANGED << loopFrame, calls, ptyOut, stdoutW, masterW, stdinPos, readfds >>

\* pty.rs:217-220 select fails with an error that is not EINTR: the loop ends.
select_fails ==
    /\ ppc = "select"
    /\ readfds' = {}
    /\ ppc' = "waitpid"
    /\ pfault' = pfault \cup {"select"}
    /\ UNCHANGED << loopFrame, calls, ptyOut, stdoutW, masterW, stdinPos >>

\* Where the loop goes after the stdin half of an iteration.
AfterStdin == IF "master" \in readfds THEN "io_master" ELSE "select"

\* Written with the last k bytes of the chunk written instead of the first.
Written_tail(chunk, k) == SubSeq(chunk, Len(chunk) - k + 1, Len(chunk))

\* pty.rs:231-233 and 250-252 libc::write(fd, buf[..n].as_ptr(), n) returning
\* k: the first k bytes of the chunk are written.
Written(chunk, k) == Prefix(chunk, k)

\* pty.rs:237-240 and 262-265 `Err(e) => { warn!(..); break; }`: the errno
\* values a failed read of fd may report, EINTR among them when signals are
\* delivered; the arm takes them all alike.
ReadErrnos(fd) ==
    LET failed == IF fd = "stdin" THEN "stdin_read" ELSE "master_read"
        eintr == IF fd = "stdin" THEN "stdin_EINTR" ELSE "master_EINTR"
    IN  {{failed}} \cup (IF input.signals THEN {{failed, eintr}} ELSE {})

\* pty.rs:224-242 stdin -> master: EOF and a read error end the loop, a
\* chunk is written to the master, a short write ends the loop.
io_stdin ==
    /\ ppc = "io_stdin"
    /\ \/ /\ StdinAvail = 0 /\ input.stdin_eof
          /\ ppc' = "waitpid"
          /\ UNCHANGED << stdinPos, masterW, pfault >>
       \/ /\ ppc' = "waitpid"
          /\ \E e \in ReadErrnos("stdin") : pfault' = pfault \cup e
          /\ UNCHANGED << stdinPos, masterW >>
       \/ \E n \in 1..Min(StdinAvail, MaxChunk), written \in 0..Min(StdinAvail, MaxChunk) :
            LET chunk == SubSeq(input.stdin_data, stdinPos + 1, stdinPos + n)
            IN  /\ written <= n
                /\ stdinPos' = stdinPos + n
                /\ masterW' = masterW \o Written(chunk, written)
                /\ IF written = n
                   THEN ppc' = AfterStdin /\ pfault' = pfault
                   ELSE ppc' = "waitpid" /\ pfault' = pfault \cup {"master_write"}
    /\ UNCHANGED << loopFrame, calls, ptyOut, stdoutW, readfds >>

\* pty.rs:245-267 master -> stdout: EOF, EIO and any other read error end
\* the loop, a chunk is written to stdout, a short write ends the loop.
io_master ==
    /\ ppc = "io_master"
    /\ \/ /\ ptyOut = <<>> /\ ~SlaveOpen
          /\ ppc' = "waitpid"
          /\ UNCHANGED << ptyOut, stdoutW, pfault >>
       \/ /\ ppc' = "waitpid"
          /\ \E e \in ReadErrnos("master") : pfault' = pfault \cup e
          /\ UNCHANGED << ptyOut, stdoutW >>
       \/ \E n \in 1..Min(Len(ptyOut), MaxChunk), written \in 0..Min(Len(ptyOut), MaxChunk) :
            /\ written <= n
            /\ ptyOut' = Suffix(ptyOut, n)
            /\ stdoutW' = stdoutW \o Written(Prefix(ptyOut, n), written)
            /\ IF written = n
               THEN ppc' = "select" /\ pfault' = pfault
               ELSE ppc' = "waitpid" /\ pfault' = pfault \cup {"stdout_write"}
    /\ UNCHANGED << loopFrame, calls, masterW, stdinPos, readfds >>

\* ------------------------------------------------------------------ supervisor, after the loop
\* main.rs:342 waitpid(child, None): blocks until the child has terminated;
\* fails (ECHILD) when the terminated child was already reaped by the kernel.
waitpid ==
    /\ ppc = "waitpid"
    /\ cstatus # "none"
    /\ \E reaped \in BOOLEAN, ok \in BOOLEAN :
        IF reaped
        THEN /\ wait_status' = cstatus
             /\ ppc' = "pty_close"
             /\ UNCHANGED << inVars, cpc, ns_manager, mounts, ioVars, cstatus, cresult,
                             presult, ofs_manager, dirs, rmlog, pty_manager, fds,
                             closes, sys, proc, hostTerm, tclog, pfault >>
        ELSE /\ ParentReturns("ProcessError", pty_manager.P, ofs_manager.P, ok,
                              {"waitpid"}, tclog)
             /\ UNCHANGED retFrame
    /\ Called("P", "waitpid")

\* pty.rs PtyManager::close, called at main.rs:347.
pty_close ==
    /\ ppc = "pty_close"
    /\ pty_manager' = [pty_manager EXCEPT !.P = Closed(@)]
    /\ closes' = [closes EXCEPT !.P = @ \o CloseCalls(pty_manager.P)]
    /\ fds' = [fds EXCEPT !.P = @ \ Range(CloseCalls(pty_manager.P))]
    /\ ppc' = "restore_terminal"
    /\ UNCHANGED << stepFrame, sys, proc, hostTerm, tclog, pfault >>
    /\ Called("P", "close")

\* pty.rs PtyManager::restore_terminal, called at main.rs:350.
restore_terminal ==
    /\ ppc = "restore_terminal"
    /\ \E ok \in BOOLEAN, ok2 \in BOOLEAN :
        IF ok \/ ~RestoreCalls(pty_manager.P, "host")
        THEN /\ hostTerm' = TermAfterRestore(pty_manager.P, "host", TRUE, hostTerm)
             /\ tclog' = TcAfterRestore(pty_manager.P, "host", TRUE, "P", tclog)
             /\ ppc' = "cleanup"
             /\ UNCHANGED << stepFrame, pty_manager, fds, closes, sys, proc, pfault >>
        ELSE /\ ParentReturns("PtyError", pty_manager.P, ofs_manager.P, ok2, {"restore"},
                              TcAfterRestore(pty_manager.P, "host", FALSE, "P", tclog))
             /\ UNCHANGED retFrame
    /\ Called("P", "restore_terminal")

\* mount.rs OverlayFsManager::cleanup: umount2(merged, MNT_DETACH), whose
\* failure only warns, then temp_dirs.clear().
OverlayCleanupCalls(ofs, ok) ==
    << [Sys("umount2", "merged", "", <<>>, {"MNT_DETACH"}) EXCEPT !.ok = ok] >>

\* main.rs:355-360: cleanup of the overlay if one was passed, then Ok(()).
cleanup ==
    /\ ppc = "cleanup"
    /\ \E unmounted \in BOOLEAN, ok \in BOOLEAN :
        /\ IF IsSome(ofs_manager.P)
           THEN /\ calls' = [calls EXCEPT !.P = Append(@, "cleanup") \o PtyDrop]
                /\ sys' = [sys EXCEPT !.P =
                              @ \o OverlayCleanupCalls(Get(ofs_manager.P), unmounted)]
           ELSE /\ calls' = [calls EXCEPT !.P = @ \o PtyDrop]
                /\ UNCHANGED sys
        /\ ParentReturns("Ok", pty_manager.P, ofs_manager.P, ok, {}, tclog)
    /\ UNCHANGED << inVars, cpc, ns_manager, proc, mounts, ioVars, cstatus,
                    wait_status, cresult >>

\* ------------------------------------------------------------------ child
\* What no step of the child touches.
childFrame ==
    << inVars, ppc, ns_manager, presult, wait_status, pfault, stdoutW, masterW,
       stdinPos, readfds >>

\* main.rs:145-150 with impl Drop for PtyManager: run_container returns err
\* in the child, its locals are dropped (close, restore_terminal, the overlay
\* manager's temporary directories), and main exits with status 1.
\* pm, ofs, pr, cl: the child's managers, kernel state and close log at the
\* return; ds, rl, tc: directories, removals and tcsetattr log at the return.
ChildFails(err, pm, ofs, pr, cl, ok, ds, rl) ==
    LET sin == IF "stdin" \in pr.stdio THEN "slave" ELSE "host"
    IN  /\ cpc' = "exited"
        /\ cstatus' = "exit1"
        /\ cresult' = err
        /\ pty_manager' = [pty_manager EXCEPT !.C = Closed(pm)]
        /\ closes' = [closes EXCEPT !.C = cl \o CloseCalls(pm)]
        /\ fds' = [fds EXCEPT !.C = {}]
        /\ hostTerm' = TermAfterRestore(pm, sin, ok, hostTerm)
        /\ tclog' = TcAfterRestore(pm, sin, ok, "C", tclog)
        /\ ofs_manager' = [ofs_manager EXCEPT !.C = None]
        /\ dirs' = DirsAfterDrop(TempDirsOf(ofs), "C", ds, mounts)
        /\ rmlog' = RmAfterDrop(TempDirsOf(ofs), "C", rl, mounts)
        /\ proc' = [proc EXCEPT !.C = [pr EXCEPT !.stdio = {}]]

\* close_master with the master left open in the child.
close_master_kept ==
    /\ cpc = "close_master"
    /\ cpc' = "setup_mount_namespace"
    /\ UNCHANGED << childFrame, pty_manager, ofs_manager, fds, closes, sys, proc,
                    hostTerm, tclog, fsVars, ptyOut, cmdPos, cstatus, cresult >>
    /\ Called("C", "close_master")

\* close_master with the child going on to the overlay at once, the mount
\* namespace step left out.
close_master_then_overlay ==
    /\ cpc = "close_master"
    /\ closes' = [closes EXCEPT !.C = Append(@, "master")]
    /\ fds' = [fds EXCEPT !.C = @ \ {"master"}]
    /\ cpc' = "overlay"
    /\ UNCHANGED << childFrame, pty_manager, ofs_manager, sys, proc, hostTerm, tclog,
                    fsVars, ptyOut, cmdPos, cstatus, cresult >>
    /\ Called("C", "close_master")

\* main.rs:366 nix::unistd::close(master_fd).ok() in the child.
close_master ==
    /\ cpc = "close_master"
    /\ closes' = [closes EXCEPT !.C = Append(@, "master")]
    /\ fds' = [fds EXCEPT !.C = @ \ {"master"}]
    /\ cpc' = "setup_mount_namespace"
    /\ UNCHANGED << childFrame, pty_manager, ofs_manager, sys, proc, hostTerm, tclog,
                    fsVars, ptyOut, cmdPos, cstatus, cresult >>
    /\ Called("C", "close_master")

\* MountNamespaceCalls with the root mount never made private.
MountNamespaceCalls_shared(c) ==
    << Sys("unshare", "", "", <<>>, {"CLONE_NEWNS"}) >>

\* namespace.rs NamespaceManager::setup_mount_namespace: unshare(CLONE_NEWNS),
\* then the root mount made recursively private if configured.
MountNamespaceCalls(c) ==
    << Sys("unshare", "", "", <<>>, {"CLONE_NEWNS"}) >>
      \o (IF c.make_root_private
          THEN << Sys("mount", "/", "", <<>>, {"MS_REC", "MS_PRIVATE"}) >> ELSE <<>>)

\* namespace.rs NamespaceManager::setup_mount_namespace, called at main.rs:369.
setup_mount_namespace ==
    /\ cpc = "setup_mount_namespace"
    /\ IF ~config.mount_namespace
       THEN /\ cpc' = "overlay"
            /\ UNCHANGED << pty_manager, ofs_manager, fds, closes, sys, proc, hostTerm,
                            tclog, dirs, rmlog, cstatus, cresult >>
       ELSE LET cs == MountNamespaceCalls(config)
            IN  \E failAt \in 0..Len(cs), ok \in BOOLEAN :
                  LET n == Succeeded(cs, failAt)
                      pr == [UnsharedAfter(proc.C, cs, n) EXCEPT
                                !.root_private = (n = 2)]
                  IN  /\ sys' = [sys EXCEPT !.C = @ \o Attempted(cs, failAt)]
                      /\ IF failAt = 0
                         THEN /\ cpc' = "overlay"
                              /\ proc' = [proc EXCEPT !.C = pr]
                              /\ UNCHANGED << pty_manager, ofs_manager, fds, closes,
                                              hostTerm, tclog, dirs, rmlog, cstatus,
                                              cresult >>
                         ELSE ChildFails(IF failAt = 1 THEN "NamespaceError"
                                                        ELSE "MountError",
                                         pty_manager.C, ofs_manager.C, pr, closes.C,
                                         ok, dirs, rmlog)
    /\ UNCHANGED << childFrame, mounts, ptyOut, cmdPos >>
    /\ Called("C", "setup_mount_namespace")

\* Whether a mount made by a process in kernel state pr shows in the host's
\* mount namespace: it does when the process never left it, and when it left
\* it with the root mount still shared (a mount namespace owned by a new user
\* namespace turns shared mounts into slaves).
VisibleHost(pr) ==
    \/ "mnt" \notin pr.unshared
    \/ input.host_shared /\ ~pr.root_private /\ "user" \notin pr.unshared

\* A mount(2) call that succeeded, by process who in kernel state pr.
Mounted(source, target, fstype, flags, options, who, pr) ==
    [ source |-> source, target |-> target, fstype |-> fstype, flags |-> flags,
      options |-> options, by |-> who,
      ns |-> IF "mnt" \in pr.unshared THEN "new" ELSE "host",
      visible_host |-> VisibleHost(pr) ]

\* tempfile::TempDir::new: the scratch directories of the overlay.
ScratchDir(name) == Abs(<<"tmp", name>>)

\* mount.rs:225-246 the upper directory: the persist path or a temporary one.
UpperPath(ofs) ==
    IF IsSome(ofs.persist_path) THEN Get(ofs.persist_path) ELSE ScratchDir("upper")

\* mount.rs:249-254 the overlay options: lowerdir is the image path.
OverlayOptions(ofs, upper_path, work_path) ==
    [ lowerdir |-> << ofs.image_path >>, upperdir |-> upper_path, workdir |-> work_path ]

\* mount.rs OverlayFsManager::setup, stage by stage: 1 the merged directory,
\* 2 the work directory, 3 the upper directory, 4 the mount. failAt names
\* the stage that fails (0: none).
SetupMade(failAt) == IF failAt = 0 THEN 4 ELSE failAt - 1

SetupDirs(ofs, failAt) ==
    (IF SetupMade(failAt) >= 1 THEN {ScratchDir("merged")} ELSE {})
      \cup (IF SetupMade(failAt) >= 2 THEN {ScratchDir("work")} ELSE {})
      \cup (IF SetupMade(failAt) >= 3 THEN {UpperPath(ofs)} ELSE {})

\* The temporary directories dropped when setup and the block around it end,
\* in the order they are dropped: on an error the locals work and merged, then
\* the manager's; on success the manager's upper, merged, work.
SetupDropped(ofs, failAt) ==
    LET upper == IF SetupMade(failAt) >= 3 /\ ~IsSome(ofs.persist_path)
                 THEN << ScratchDir("upper") >> ELSE <<>>
    IN  IF failAt = 0
        THEN ofs.temp_dirs \o upper \o << ScratchDir("merged"), ScratchDir("work") >>
        ELSE (IF SetupMade(failAt) >= 2 THEN << ScratchDir("work") >> ELSE <<>>)
               \o (IF SetupMade(failAt) >= 1 THEN << ScratchDir("merged") >> ELSE <<>>)
               \o ofs.temp_dirs \o upper

\* main.rs:372-374 `if let Some(mut ofs) = ofs_manager { ofs.setup()?; };` in
\* the child: setup, then the manager moved into the block is dropped.
overlay_setup ==
    /\ cpc = "overlay"
    /\ IF ~IsSome(ofs_manager.C)
       THEN /\ cpc' = "setup_basic_mounts"
            /\ UNCHANGED << calls, pty_manager, ofs_manager, fds, closes, proc, hostTerm,
                            tclog, fsVars, cstatus, cresult >>
       ELSE \E failAt \in 0..4, ok \in BOOLEAN :
              LET ofs == Get(ofs_manager.C)
                  ms == IF failAt = 0
                        THEN Append(mounts,
                                Mounted(Rel(<<"overlay">>), ScratchDir("merged"), "overlay",
                                        {},
                                        Some(OverlayOptions(ofs, UpperPath(ofs),
                                                            ScratchDir("work"))),
                                        "C", proc.C))
                        ELSE mounts
                  made == dirs \cup SetupDirs(ofs, failAt)
                  dropped == SetupDropped(ofs, failAt)
              IN  /\ mounts' = ms
                  /\ IF failAt = 0
                     THEN /\ cpc' = "setup_basic_mounts"
                          /\ ofs_manager' = [ofs_manager EXCEPT !.C = None]
                          /\ dirs' = DirsAfterDrop(dropped, "C", made, ms)
                          /\ rmlog' = RmAfterDrop(dropped, "C", rmlog, ms)
                          /\ UNCHANGED << pty_manager, fds, closes, proc, hostTerm, tclog,
                                          cstatus, cresult >>
                     ELSE ChildFails("OverlayFsError", pty_manager.C, None, proc.C,
                                     closes.C, ok, DirsAfterDrop(dropped, "C", made, ms),
                                     RmAfterDrop(dropped, "C", rmlog, ms))
                  /\ Called("C", "overlay_setup")
    /\ UNCHANGED << childFrame, sys, ptyOut, cmdPos >>

\* OverlayFsManager::get_final_root, called at main.rs:291: the directory the
\* overlay is mounted at.
get_final_root == ScratchDir("merged")

\* main.rs run_enter / run_overlay: the final_root argument of run_container.
final_root == IF IsSome(input.overlay) THEN get_final_root ELSE ImagePath

\* mount.rs MountManager::setup_basic_mounts and setup_bind_mount: the
\* mount(2) calls of the configuration, in the order they are made.
\* BindDest with the destination joined as it is, its leading "/" kept.
BindDest_unstripped(new_root, b) == PathJoin(new_root, b.destination)

BindDest(new_root, b) ==
    PathJoin(new_root,
             IF IsSome(StripRootPrefix(b.destination))
             THEN Get(StripRootPrefix(b.destination)) ELSE b.destination)

\* mount.rs:46-122 setup_basic_mounts: proc, sys, dev and tmp, each when enabled.
SystemMounts(c, new_root) ==
    (IF c.mount_proc
     THEN << [source |-> Rel(<<"proc">>), target |-> PathJoin(new_root, Rel(<<"proc">>)),
              fstype |-> "proc", flags |-> {}] >> ELSE <<>>)
    \o (IF c.mount_sys
        THEN << [source |-> Abs(<<"sys">>), target |-> PathJoin(new_root, Rel(<<"sys">>)),
                 fstype |-> "",
                 flags |-> {"MS_BIND", "MS_REC"}
                             \cup (IF c.sys_readonly THEN {"MS_RDONLY"} ELSE {})] >>
        ELSE <<>>)
    \o (IF c.mount_dev
        THEN << [source |-> Abs(<<"dev">>), target |-> PathJoin(new_root, Rel(<<"dev">>)),
                 fstype |-> "", flags |-> {"MS_BIND", "MS_REC"}] >> ELSE <<>>)
    \o (IF c.mount_tmp
        THEN << [source |-> Rel(<<"tmpfs">>), target |-> PathJoin(new_root, Rel(<<"tmp">>)),
                 fstype |-> "tmpfs", flags |-> {}] >> ELSE <<>>)

\* mount.rs:125-127 and setup_bind_mount: the configured bind mounts, in order.
ConfiguredBindMounts(c, new_root) ==
    [i \in 1..Len(c.bind_mounts) |->
          [source |-> c.bind_mounts[i].source,
           target |-> BindDest(new_root, c.bind_mounts[i]),
           fstype |-> "",
           flags |-> {"MS_BIND"}
                       \cup (IF c.bind_mounts[i].recursive THEN {"MS_REC"} ELSE {})
                       \cup (IF c.bind_mounts[i].readonly THEN {"MS_RDONLY"} ELSE {})]]

\* BasicMounts with the configured bind mounts made first.
BasicMounts_binds_first(c, new_root) ==
    ConfiguredBindMounts(c, new_root) \o SystemMounts(c, new_root)

\* mount.rs MountManager::setup_basic_mounts: the mounts of a full run.
BasicMounts(c, new_root) ==
    SystemMounts(c, new_root) \o ConfiguredBindMounts(c, new_root)

\* mount.rs MountManager::setup_basic_mounts, called at main.rs:377. failAt:
\* the mount that fails (0: none); ensured: whether its directory was made
\* (the mount failed) or not (ensure_dir failed).
setup_basic_mounts ==
    /\ cpc = "setup_basic_mounts"
    /\ LET ms == BasicMounts(config, final_root)
       IN  \E failAt \in 0..Len(ms), ensured \in BOOLEAN, ok \in BOOLEAN :
             LET n == Succeeded(ms, failAt)
                 made == dirs \cup {ms[i].target : i \in 1..n}
                              \cup (IF failAt > 0 /\ ensured
                                    THEN {ms[failAt].target} ELSE {})
             IN  /\ mounts' = mounts \o
                        [i \in 1..n |-> Mounted(ms[i].source, ms[i].target, ms[i].fstype,
                                                 ms[i].flags, None, "C", proc.C)]
                 /\ IF failAt = 0
                    THEN /\ cpc' = "chroot"
                         /\ dirs' = made
                         /\ UNCHANGED << pty_manager, ofs_manager, fds, closes, proc,
                                         hostTerm, tclog, rmlog, cstatus, cresult >>
                    ELSE ChildFails("MountError", pty_manager.C, ofs_manager.C, proc.C,
                                    closes.C, ok, made, rmlog)
    /\ UNCHANGED << childFrame, sys, ptyOut, cmdPos >>
    /\ Called("C", "setup_basic_mounts")

\* mount.rs MountManager::chroot, called at main.rs:380: chroot(new_root), chdir("/").
ChrootCalls ==
    << Sys("chroot", "final_root", "", <<>>, {}), Sys("chdir", "/", "", <<>>, {}) >>

chroot ==
    /\ cpc = "chroot"
    /\ \E failAt \in 0..Len(ChrootCalls), ok \in BOOLEAN :
         LET pr == [proc.C EXCEPT !.chrooted = Succeeded(ChrootCalls, failAt) >= 1]
         IN  /\ sys' = [sys EXCEPT !.C = @ \o Attempted(ChrootCalls, failAt)]
             /\ IF failAt = 0
                THEN /\ cpc' = "setup_slave"
                     /\ proc' = [proc EXCEPT !.C = pr]
                     /\ UNCHANGED << pty_manager, ofs_manager, fds, closes, hostTerm,
                                     tclog, dirs, rmlog, cstatus, cresult >>
                ELSE ChildFails("ChrootError", pty_manager.C, ofs_manager.C, pr,
                                closes.C, ok, dirs, rmlog)
    /\ UNCHANGED << childFrame, mounts, ptyOut, cmdPos >>
    /\ Called("C", "chroot")

\* pty.rs PtyManager::setup_slave: setsid, dup2 onto 0, 1, 2, close of the
\* slave descriptor (it is above stderr), then TIOCSCTTY, whose failure warns.
SlaveCalls ==
    << Sys("setsid", "", "", <<>>, {}),
       Sys("dup2", "stdin", "", <<>>, {}),
       Sys("dup2", "stdout", "", <<>>, {}),
       Sys("dup2", "stderr", "", <<>>, {}),
       Sys("close", "slave", "", <<>>, {}) >>

SlaveAfter(pr, n, ctty) ==
    [pr EXCEPT !.session = (n >= 1),
               !.stdio = {SlaveCalls[i].arg : i \in {j \in 2..4 : j <= n}},
               !.ctty = ctty]

\* pty.rs PtyManager::setup_slave, called at main.rs:383.
setup_slave ==
    /\ cpc = "setup_slave"
    /\ \E failAt \in 0..Len(SlaveCalls), ctty \in BOOLEAN, ok \in BOOLEAN :
         LET n == Succeeded(SlaveCalls, failAt)
             att == Attempted(SlaveCalls, failAt)
             pr == SlaveAfter(proc.C, n, failAt = 0 /\ ctty)
             cl == closes.C \o (IF Len(att) = 5 THEN <<"slave">> ELSE <<>>)
         IN  /\ sys' = [sys EXCEPT !.C = @ \o att
                          \o (IF failAt = 0
                              THEN << [Sys("ioctl", "TIOCSCTTY", "", <<>>, {})
                                          EXCEPT !.ok = ctty] >>
                              ELSE <<>>)]
             /\ IF failAt = 0
                THEN /\ cpc' = "set_no_new_privs"
                     /\ proc' = [proc EXCEPT !.C = pr]
                     /\ closes' = [closes EXCEPT !.C = cl]
                     /\ fds' = [fds EXCEPT !.C = @ \ {"slave"}]
                     /\ UNCHANGED << pty_manager, ofs_manager, hostTerm, tclog, dirs,
                                     rmlog, cstatus, cresult >>
                ELSE ChildFails("PtyError", pty_manager.C, ofs_manager.C, pr, cl, ok,
                                dirs, rmlog)
    /\ UNCHANGED << childFrame, mounts, ptyOut, cmdPos >>
    /\ Called("C", "setup_slave")

\* set_no_new_privs with a failed prctl only noted, the child going on to exec.
set_no_new_privs_warn_only ==
    /\ cpc = "set_no_new_privs"
    /\ cpc' = "exec"
    /\ IF ~config.no_new_privs
       THEN UNCHANGED << sys, proc >>
       ELSE \E set \in BOOLEAN :
              /\ sys' = [sys EXCEPT !.C = Append(@,
                            [Sys("prctl", "PR_SET_NO_NEW_PRIVS", "1", <<>>, {})
                                EXCEPT !.ok = set])]
              /\ proc' = [proc EXCEPT !.C.no_new_privs = set]
    /\ UNCHANGED << pty_manager, ofs_manager, fds, closes, hostTerm, tclog, dirs, rmlog,
                    cstatus, cresult >>
    /\ UNCHANGED << childFrame, mounts, ptyOut, cmdPos >>
    /\ Called("C", "set_no_new_privs")

\* namespace.rs NamespaceManager::set_no_new_privs, called at main.rs:386.
set_no_new_privs ==
    /\ cpc = "set_no_new_privs"
    /\ IF ~config.no_new_privs
       THEN /\ cpc' = "exec"
            /\ UNCHANGED << pty_manager, ofs_manager, fds, closes, sys, proc, hostTerm,
                            tclog, dirs, rmlog, cstatus, cresult >>
       ELSE \E set \in BOOLEAN, ok \in BOOLEAN :
              /\ sys' = [sys EXCEPT !.C = Append(@,
                            [Sys("prctl", "PR_SET_NO_NEW_PRIVS", "1", <<>>, {})
                                EXCEPT !.ok = set])]
              /\ IF set
                 THEN /\ cpc' = "exec"
                      /\ proc' = [proc EXCEPT !.C.no_new_privs = TRUE]
                      /\ UNCHANGED << pty_manager, ofs_manager, fds, closes, hostTerm,
                                      tclog, dirs, rmlog, cstatus, cresult >>
                 ELSE ChildFails("NamespaceError", pty_manager.C, ofs_manager.C, proc.C,
                                 closes.C, ok, dirs, rmlog)
    /\ UNCHANGED << childFrame, mounts, ptyOut, cmdPos >>
    /\ Called("C", "set_no_new_privs")

\* CString_new with the bytes taken as they are.
CString_new_unchecked(bytes) == Some(bytes)

\* std::ffi::CString::new: an error when the bytes hold a zero byte.
CString_new(bytes) == IF "NUL" \in Range(bytes) THEN None ELSE Some(bytes)

\* main.rs:406-417 c_args: the command, then each argument in order, each
\* through CString::new; None when one of them is rejected.
RECURSIVE CArgs(_)
CArgs(words) ==
    IF words = <<>> THEN Some(<<>>)
    ELSE IF ~IsSome(CString_new(Head(words))) THEN None
    ELSE IF ~IsSome(CArgs(Tail(words))) THEN None
    ELSE Some(<< Get(CString_new(Head(words))) >> \o Get(CArgs(Tail(words))))

\* main.rs execute_command, called at main.rs:389: the argument list is
\* built (a NUL byte in it is an error), then execvp(c_args[0], c_args)
\* replaces the image; no destructor of the child runs after a successful exec.
execute_command ==
    /\ cpc = "exec"
    /\ \E execd \in BOOLEAN, ok \in BOOLEAN :
         LET c_args == CArgs(<< input.command >> \o input.args)
             valid == IsSome(c_args)
         IN
         /\ sys' = [sys EXCEPT !.C =
                       @ \o (IF valid
                             THEN << [Sys("execvp", Get(c_args)[1], "", Get(c_args), {})
                                         EXCEPT !.ok = execd] >>
                             ELSE <<>>)]
         /\ IF valid /\ execd
            THEN /\ cpc' = "running"
                 /\ UNCHANGED << pty_manager, ofs_manager, fds, closes, proc, hostTerm,
                                 tclog, dirs, rmlog, cstatus, cresult >>
            ELSE ChildFails("ExecError", pty_manager.C, ofs_manager.C, proc.C, closes.C,
                            ok, dirs, rmlog)
    /\ UNCHANGED << childFrame, mounts, ptyOut, cmdPos >>
    /\ Called("C", "execute_command")

\* ------------------------------------------------------------------ the contained command
\* The command writes its next byte to the slave: the write blocks while the
\* kernel's buffer is full, and the byte is lost (EIO) once the supervisor
\* has closed the master.
cmd_write ==
    /\ cpc = "running"
    /\ cmdPos < Len(input.cmd_out)
    /\ cmdPos' = cmdPos + 1
    /\ IF "master" \in fds.P
       THEN /\ Len(ptyOut) < PtyCap
            /\ ptyOut' = Append(ptyOut, input.cmd_out[cmdPos + 1])
       ELSE ptyOut' = ptyOut
    /\ UNCHANGED << childFrame, cpc, pty_manager, ofs_manager, fds, closes, calls, sys,
                    proc, hostTerm, tclog, fsVars, cstatus, cresult >>

\* The command exits after its last write; its descriptors are closed.
cmd_exit ==
    /\ cpc = "running"
    /\ cmdPos = Len(input.cmd_out)
    /\ cpc' = "exited"
    /\ cstatus' = "exit0"
    /\ fds' = [fds EXCEPT !.C = {}]
    /\ proc' = [proc EXCEPT !.C.stdio = {}]
    /\ UNCHANGED << childFrame, pty_manager, ofs_manager, closes, calls, sys, hostTerm,
                    tclog, fsVars, ptyOut, cmdPos, cresult >>

\* ------------------------------------------------------------------ the system
Next ==
    \/ run
    \/ setup_pty
    \/ NamespaceManager_new
    \/ setup_parent_death_signal
    \/ setup_user_namespace
    \/ setup_namespaces
    \/ fork
    \/ close_slave
    \/ set_raw_mode
    \/ io_loop_blocking
    \/ select_returns
    \/ select_interrupted
    \/ select_fails
    \/ io_stdin
    \/ io_master
    \/ waitpid
    \/ pty_close
    \/ restore_terminal
    \/ cleanup
    \/ close_master
    \/ setup_mount_namespace
    \/ overlay_setup
    \/ setup_basic_mounts
    \/ chroot
    \/ setup_slave
    \/ set_no_new_privs
    \/ execute_command
    \/ cmd_write
    \/ cmd_exit

Spec == Init /\ [][Next]_vars

\* The supervisor's steps after fork that make progress without a failure of
\* the host: the kernel schedules the supervisor, and select returns once a
\* descriptor is ready.
ParentProgress ==
    \/ close_slave
    \/ set_raw_mode
    \/ io_loop_blocking
    \/ select_returns
    \/ io_stdin
    \/ io_master
    \/ waitpid
    \/ pty_close
    \/ restore_terminal
    \/ cleanup

InitLive == InitOf(LiveRuns) /\ NoConfigFile

SpecLive == InitLive /\ [][Next]_vars /\ WF_vars(ParentProgress)

\* ------------------------------------------------------------------ configuration file
MaxConfigBinds == 2
U16Max == 65535

\* config.rs impl Default for Features
Features_default ==
    [ overlayfs |-> TRUE, user_namespace |-> TRUE, mount_namespace |-> TRUE,
      pid_namespace |-> TRUE, uts_namespace |-> TRUE, network_namespace |-> FALSE,
      pty_enabled |-> TRUE, parent_death_signal |-> TRUE, no_new_privs |-> TRUE ]

\* Namespaces_default with a hostname given by default.
Namespaces_default_named == [ hostname |-> Some("rootbox"), domainname |-> None ]

\* config.rs impl Default for Namespaces
Namespaces_default == [ hostname |-> None, domainname |-> None ]

\* config.rs impl Default for Mounts
Mounts_default ==
    [ mount_proc |-> TRUE, mount_sys |-> TRUE, mount_dev |-> TRUE, mount_tmp |-> TRUE,
      make_root_private |-> TRUE, sys_readonly |-> TRUE, bind_mounts |-> <<>> ]

\* config.rs impl Default for Security
Security_default ==
    [ apparmor_enabled |-> FALSE, apparmor_profile |-> None,
      drop_capabilities |-> FALSE, keep_capabilities |-> <<>> ]

\* config.rs impl Default for Pty
Pty_default == [ default_rows |-> 24, default_cols |-> 80 ]

\* config.rs impl Default for Config
Config_default ==
    [ features |-> Features_default, namespaces |-> Namespaces_default,
      mounts |-> Mounts_default, security |-> Security_default, pty |-> Pty_default ]

\* config.rs default_true
default_true == TRUE

\* The boolean fields of Features and of Mounts, in the order of declaration.
FeaturesFields ==
    << "overlayfs", "user_namespace", "mount_namespace", "pid_namespace",
       "uts_namespace", "network_namespace", "pty_enabled", "parent_death_signal",
       "no_new_privs" >>
MountsFields ==
    << "mount_proc", "mount_sys", "mount_dev", "mount_tmp", "make_root_private",
       "sys_readonly" >>

\* A TOML document: whether its text is well-formed, and its sections in
\* order, each a [header] or [[header]] followed by its key = value lines.
Entry(k, t, v) == [k |-> k, t |-> t, v |-> v]
Table(hdr, es) == [hdr |-> hdr, array |-> FALSE, entries |-> es]
ArrayTable(hdr, es) == [hdr |-> hdr, array |-> TRUE, entries |-> es]
Document(secs) == [syntax |-> TRUE, sections |-> secs]

\* serde Serialize of the field types: an Option that is None is not written;
\* a path is written as the string of its text.
SerBool(k, b) == << Entry(k, "boolean", b) >>
SerInt(k, n) == << Entry(k, "integer", n) >>
SerStr(k, x) == << Entry(k, "string", x) >>
SerOpt(k, o) == IF IsSome(o) THEN SerStr(k, Get(o)) ELSE <<>>
SerStrs(k, xs) == << Entry(k, "array", xs) >>

RECURSIVE SerBools(_, _)
SerBools(ks, r) ==
    IF ks = <<>> THEN <<>> ELSE SerBool(Head(ks), r[Head(ks)]) \o SerBools(Tail(ks), r)

\* derive(Serialize) for BindMount: one [[mounts.bind_mounts]] table.
SerBindMount(b) ==
    ArrayTable("mounts.bind_mounts",
               SerStr("source", b.source) \o SerStr("destination", b.destination)
                 \o SerBool("readonly", b.readonly)
                 \o SerBool("recursive", b.recursive))

\* config.rs:228 toml::to_string_pretty(self): the five tables in the order of
\* the fields; an empty bind_mounts is the value [] in [mounts], a non-empty
\* one is an array of tables after it.
to_string_pretty(c) ==
    Document(
      << Table("features", SerBools(FeaturesFields, c.features)),
         Table("namespaces", SerOpt("hostname", c.namespaces.hostname)
                               \o SerOpt("domainname", c.namespaces.domainname)),
         Table("mounts", SerBools(MountsFields, c.mounts)
                           \o (IF c.mounts.bind_mounts = <<>>
                               THEN SerStrs("bind_mounts", <<>>) ELSE <<>>)) >>
        \o [i \in 1..Len(c.mounts.bind_mounts) |-> SerBindMount(c.mounts.bind_mounts[i])]
        \o << Table("security",
                    SerBool("apparmor_enabled", c.security.apparmor_enabled)
                      \o SerOpt("apparmor_profile", c.security.apparmor_profile)
                      \o SerBool("drop_capabilities", c.security.drop_capabilities)
                      \o SerStrs("keep_capabilities", c.security.keep_capabilities)),
              Table("pty", SerInt("default_rows", c.pty.default_rows)
                             \o SerInt("default_cols", c.pty.default_cols)) >>)

\* Looking a key up in the lines of a table.
Has(es, k) == \E i \in 1..Len(es) : es[i].k = k
At(es, k) == es[CHOOSE i \in 1..Len(es) : es[i].k = k]

\* The lines of the table [hdr], none when the document has no such table.
Section(d, hdr) ==
    LET at == {i \in 1..Len(d.sections) :
                 d.sections[i].hdr = hdr /\ ~d.sections[i].array}
    IN  IF at = {} THEN <<>> ELSE d.sections[CHOOSE i \in at : TRUE].entries

\* The [[hdr]] tables of the document, in order.
RECURSIVE ArrayTables(_, _)
ArrayTables(secs, hdr) ==
    IF secs = <<>> THEN <<>>
    ELSE (IF Head(secs).hdr = hdr /\ Head(secs).array
          THEN << Head(secs).entries >> ELSE <<>>) \o ArrayTables(Tail(secs), hdr)

\* serde(default): a field takes the value of its key when the key is there
\* and the default otherwise; an Option takes Some of the value.
Field(es, k, dflt) == IF Has(es, k) THEN At(es, k).v ELSE dflt
OptField(es, k, dflt) == IF Has(es, k) THEN Some(At(es, k).v) ELSE dflt

\* Whether every known key of the table has a value of its field's type;
\* unknown keys are ignored.
Typed(es, types) ==
    \A i \in 1..Len(es) :
        es[i].k \in DOMAIN types =>
            /\ es[i].t = types[es[i].k].t
            /\ types[es[i].k].u16 => es[i].v \in 0..U16Max

FieldType(t) == [t |-> t, u16 |-> t = "integer"]
AllOf(ks, t) == [k \in ks |-> FieldType(t)]

FeaturesTypes == AllOf(Range(FeaturesFields), "boolean")
NamespacesTypes == AllOf({"hostname", "domainname"}, "string")
MountsTypes ==
    [k \in Range(MountsFields) \cup {"bind_mounts"} |->
        FieldType(IF k = "bind_mounts" THEN "array" ELSE "boolean")]
SecurityTypes ==
    [k \in {"apparmor_enabled", "apparmor_profile", "drop_capabilities",
            "keep_capabilities"} |->
        FieldType(CASE k = "apparmor_profile" -> "string"
                    [] k = "keep_capabilities" -> "array"
                    [] OTHER -> "boolean")]
PtyTypes == AllOf({"default_rows", "default_cols"}, "integer")
BindMountTypes ==
    [k \in {"source", "destination", "readonly", "recursive"} |->
        FieldType(IF k \in {"source", "destination"} THEN "string" ELSE "boolean")]

\* derive(Deserialize) for BindMount: source and destination are required,
\* readonly defaults to false and recursive to default_true().
BindMountOk(es) == Typed(es, BindMountTypes) /\ Has(es, "source") /\ Has(es, "destination")
DeBindMount(es) ==
    [ source |-> At(es, "source").v, destination |-> At(es, "destination").v,
      readonly |-> Field(es, "readonly", FALSE),
      recursive |-> Field(es, "recursive", default_true) ]

\* The results of the configuration methods.
Ok(v) == [res |-> "Ok", val |-> Some(v)]
Err(e) == [res |-> e, val |-> None]

\* config.rs:212 toml::from_str(&content) into Config, every struct of which
\* but BindMount is serde(default).
from_str(d) ==
    LET f == Section(d, "features")
        n == Section(d, "namespaces")
        m == Section(d, "mounts")
        x == Section(d, "security")
        p == Section(d, "pty")
        bs == ArrayTables(d.sections, "mounts.bind_mounts")
    IN  IF ~d.syntax
           \/ ~Typed(f, FeaturesTypes) \/ ~Typed(n, NamespacesTypes)
           \/ ~Typed(m, MountsTypes) \/ ~Typed(x, SecurityTypes)
           \/ ~Typed(p, PtyTypes)
           \/ \E i \in 1..Len(bs) : ~BindMountOk(bs[i])
        THEN Err("ConfigError")
        ELSE Ok([ features |->
                    [k \in Range(FeaturesFields) |-> Field(f, k, Features_default[k])],
                  namespaces |->
                    [ hostname |-> OptField(n, "hostname", Namespaces_default.hostname),
                      domainname |->
                          OptField(n, "domainname", Namespaces_default.domainname) ],
                  mounts |->
                    [k \in Range(MountsFields) \cup {"bind_mounts"} |->
                        IF k = "bind_mounts"
                        THEN (IF bs # <<>> THEN [i \in 1..Len(bs) |-> DeBindMount(bs[i])]
                              ELSE Field(m, k, Mounts_default.bind_mounts))
                        ELSE Field(m, k, Mounts_default[k])],
                  security |->
                    [ apparmor_enabled |->
                          Field(x, "apparmor_enabled", Security_default.apparmor_enabled),
                      apparmor_profile |->
                          OptField(x, "apparmor_profile", Security_default.apparmor_profile),
                      drop_capabilities |->
                          Field(x, "drop_capabilities", Security_default.drop_capabilities),
                      keep_capabilities |->
                          Field(x, "keep_capabilities", Security_default.keep_capabilities) ],
                  pty |->
                    [ default_rows |-> Field(p, "default_rows", Pty_default.default_rows),
                      default_cols |-> Field(p, "default_cols", Pty_default.default_cols) ] ])

\* The Config values written: the default, each boolean flipped, the names
\* absent and present, bind mounts, the security fields and the PTY sizes.
ConfigValues ==
    {Config_default}
      \cup {[Config_default EXCEPT !.features[k] = ~@] : k \in Range(FeaturesFields)}
      \cup {[Config_default EXCEPT !.mounts[k] = ~@] : k \in Range(MountsFields)}
      \cup {[Config_default EXCEPT !.namespaces = [hostname |-> h, domainname |-> d]] :
                h \in {None, Some("box")}, d \in {None, Some("dom")}}
      \cup {[Config_default EXCEPT !.mounts.bind_mounts = b] :
                b \in SeqsUpTo(BindMounts, MaxConfigBinds)}
      \cup {[Config_default EXCEPT !.security =
                [ apparmor_enabled |-> e, apparmor_profile |-> a,
                  drop_capabilities |-> dc, keep_capabilities |-> kc ]] :
                e \in BOOLEAN, dc \in BOOLEAN, a \in {None, Some("prof")},
                kc \in {<<>>, <<"CAP_CHOWN">>, <<"CAP_KILL", "CAP_CHOWN">>}}
      \cup {[Config_default EXCEPT !.pty = [default_rows |-> r, default_cols |-> c]] :
                r \in {0, 24, U16Max}, c \in {0, 80, U16Max}}

\* Files found on disk that no to_file wrote: an empty one, one with a
\* single key, one with a bind mount of two keys, and malformed ones.
Documents ==
    { Document(<<>>),
      Document(<< Table("features", SerBool("overlayfs", FALSE)) >>),
      Document(<< Table("mounts", SerBool("mount_tmp", FALSE)),
                  ArrayTable("mounts.bind_mounts",
                             SerStr("source", Abs(<<"host", "x">>))
                               \o SerStr("destination", Abs(<<"data", "y">>))) >>),
      Document(<< ArrayTable("mounts.bind_mounts",
                             SerStr("source", Abs(<<"host", "x">>))) >>),
      Document(<< Table("pty", SerStr("default_rows", "tall")) >>),
      Document(<< Table("pty", SerInt("default_rows", U16Max + 1)) >>),
      Document(<< Table("extra", SerBool("unknown", TRUE)) >>),
      [syntax |-> FALSE, sections |-> <<>>] }

\* config.rs Config::to_file: serialize, then fs::write; either failure is
\* a ConfigError.
to_file ==
    /\ IsSome(conf) /\ saved = "none"
    /\ \E written \in BOOLEAN :
         IF written
         THEN file' = Some(to_string_pretty(Get(conf))) /\ saved' = "Ok"
         ELSE file' = file /\ saved' = "ConfigError"
    /\ UNCHANGED << config, input, conf, loaded, ppc, cpc, pty_manager, ns_manager,
                    ofs_manager, fds, closes, calls, sys, proc, hostTerm, tclog,
                    fsVars, ioVars, presult, cstatus, wait_status, cresult, pfault >>

\* config.rs Config::from_file: fs::read_to_string, then toml::from_str;
\* either failure is a ConfigError.
from_file ==
    /\ loaded = None
    /\ IsSome(conf) => saved # "none"
    /\ \E read \in BOOLEAN :
         loaded' = Some(IF read /\ IsSome(file) THEN from_str(Get(file))
                        ELSE Err("ConfigError"))
    /\ UNCHANGED << config, input, conf, file, saved, ppc, cpc, pty_manager,
                    ns_manager, ofs_manager, fds, closes, calls, sys, proc, hostTerm,
                    tclog, fsVars, ioVars, presult, cstatus, wait_status, cresult,
                    pfault >>

\* A Config value to write and read back, or a file to read.
InitConfig ==
    /\ InitOf({<< DefaultConfig, BaseInput >>})
    /\ saved = "none" /\ loaded = None
    /\ \/ file = None /\ \E c \in ConfigValues : conf = Some(c)
       \/ conf = None /\ \E d \in Documents : file = Some(d)

NextConfig == to_file \/ from_file

SpecConfig == InitConfig /\ [][NextConfig]_vars

\* ------------------------------------------------------------------ claims
Forked == cpc # "none"
ChildTerminated == cstatus # "none"
Execd == cpc = "running" \/ cstatus = "exit0"
LoopEntered == "io_loop_blocking" \in Range(calls.P)
LoopEnded == LoopEntered /\ ppc \in {"waitpid", "pty_close", "restore_terminal", "cleanup", "done"}

\* The launch sequence of C1, supervisor side and child side.
LaunchStepsParent ==
    << "setup_pty", "setup_parent_death_signal", "setup_user_namespace",
       "setup_namespaces", "fork" >>

LaunchStepsChild ==
    << "setup_mount_namespace" >>
      \o (IF IsSome(input.overlay) THEN << "overlay_setup" >> ELSE <<>>)
      \o << "setup_basic_mounts", "chroot", "setup_slave", "set_no_new_privs",
            "execute_command" >>

LaunchSteps == Range(LaunchStepsParent) \cup Range(LaunchStepsChild) \cup {"overlay_setup"}

\* C1: the launch steps run in the order setup_pty, parent-death signal,
\* user namespace, namespaces, fork in the supervisor, then mount namespace,
\* overlay setup (if an overlay was passed), basic mounts, chroot, slave
\* attach, NO_NEW_PRIVS, exec in the child; the child starts only after the
\* fork, a run that reaches exec has made every step once, and no child-side
\* step is made by the supervisor.
C1_LaunchOrder ==
    /\ IsPrefix(SelectVals(calls.P, LaunchSteps), LaunchStepsParent)
    /\ IsPrefix(SelectVals(calls.C, LaunchSteps), LaunchStepsChild)
    /\ calls.C # <<>> => SelectVals(calls.P, LaunchSteps) = LaunchStepsParent
    /\ Execd => SelectVals(calls.C, LaunchSteps) = LaunchStepsChild

C1_Witness == cpc = "running" /\ IsSome(input.overlay) /\ Len(mounts) > 1

\* C2: when host stdin is a terminal and the supervisor has left
\* run_container (the restoring tcsetattr, where one was made, not having
\* failed), the host terminal has the attributes it had at startup: it is
\* never left raw.
C2_TerminalRestored ==
    (ppc = "done" /\ input.stdin_tty /\ "restore" \notin pfault) => hostTerm = "orig"

\* C3 as stated: for every configuration, every mount made is made by the
\* child inside a mount namespace other than the host's, and is not visible
\* in the host's mount namespace.
C3_MountsHidden ==
    \A i \in 1..Len(mounts) :
        mounts[i].by = "C" /\ mounts[i].ns = "new" /\ ~mounts[i].visible_host

\* C3 amended: the same, for every configuration with
\* features.mount_namespace and mounts.make_root_private enabled.
C3_MountsHiddenWhenPrivate ==
    (config.mount_namespace /\ config.make_root_private) => C3_MountsHidden

C3_Witness ==
    /\ config.mount_namespace /\ config.make_root_private
    /\ input.ids.uid = 0 /\ input.host_shared
    /\ Len(mounts) >= 4

\* The overlay scratch directories: merged, work and the ephemeral upper.
ScratchDirs == {ScratchDir("merged"), ScratchDir("work"), ScratchDir("upper")}

\* C4: a scratch directory of the overlay is removed only by the supervisor
\* (the supervisor removes only when it returns, after waitpid): the child
\* never removes one.
C4_ScratchRemovedByParentOnly ==
    \A i \in 1..Len(rmlog) : rmlog[i].dir \in ScratchDirs => rmlog[i].by = "P"

IoFaults == {"select", "stdin_read", "master_write", "master_read", "stdout_write"}

\* C6: when the proxy loop has ended (no system call of the loop having
\* failed) and the command has exited, every byte the command wrote to the
\* slave has been written to host stdout, whatever the state of host stdin.
C6_OutputDelivered ==
    (LoopEnded /\ cstatus = "exit0" /\ pfault \cap IoFaults = {})
        => stdoutW = SubSeq(input.cmd_out, 1, cmdPos)

\* C7: with parent_death_signal enabled and installed by the supervisor,
\* the setting is in force on the forked child while it is alive.
C7_DeathSignalOnChild ==
    (config.parent_death_signal /\ proc.P.pdeathsig /\ Forked /\ ~ChildTerminated)
        => proc.C.pdeathsig

\* The system calls of setup_user_namespace in the supervisor's log.
IsUserNsCall(r) ==
    r.op = "write" \/ (r.op = "unshare" /\ "CLONE_NEWUSER" \in r.flags)

\* C8: for a caller that is not root, with user_namespace enabled, a
\* successful setup_user_namespace has made exactly these calls in this
\* order: unshare(CLONE_NEWUSER), one write of "0 <uid> 1" to uid_map, a
\* write of "deny" to setgroups, one write of "0 <gid> 1" to gid_map, with
\* uid and gid the caller's ids at program start.
C8_UserNamespaceWrites ==
    (input.ids.uid # 0 /\ config.user_namespace
       /\ "setup_user_namespace" \in Range(calls.P) /\ "userns" \notin pfault)
        => SelectSeq(sys.P, IsUserNsCall) =
             << [op |-> "unshare", arg |-> "", text |-> "", data |-> <<>>,
                 flags |-> {"CLONE_NEWUSER"}, ok |-> TRUE],
                [op |-> "write", arg |-> "uid_map", text |-> "",
                 data |-> <<0, input.ids.uid, 1>>, flags |-> {}, ok |-> TRUE],
                [op |-> "write", arg |-> "setgroups", text |-> "deny", data |-> <<>>,
                 flags |-> {}, ok |-> TRUE],
                [op |-> "write", arg |-> "gid_map", text |-> "",
                 data |-> <<0, input.ids.gid, 1>>, flags |-> {}, ok |-> TRUE] >>

C8_Witness ==
    /\ input.ids.uid # 0 /\ config.user_namespace
    /\ ppc = "namespaces" /\ proc.P.uid = 0 /\ proc.P.gid = 0

\* C9: the lowerdir option of every overlay mount is the image followed by
\* the extra layers, reversed: the extras from last to first, then the image.
C9_LowerdirOrder ==
    \A i \in 1..Len(mounts) :
        mounts[i].fstype = "overlay" =>
            Get(mounts[i].options).lowerdir =
                Reverse(<< Get(input.overlay).root_dir >> \o Get(input.overlay).extra_layers)

\* C10: when a step of the child fails it exits with a non-zero status and
\* the command is never exec'd; and the supervisor (no call of its own
\* failing) ends the loop, reaps the child, closes the master, restores the
\* terminal, cleans up the overlay, in this order, and returns Ok with the
\* terminal as at startup, the master closed and no scratch directory left.
C10_ChildFailureHandled ==
    /\ cresult # "none" => (cstatus = "exit1" /\ cpc = "exited" /\ cmdPos = 0)
    /\ (cresult # "none" /\ ppc = "done" /\ pfault = {})
         => /\ presult = "Ok"
            /\ wait_status = "exit1"
            /\ SelectVals(calls.P, {"io_loop_blocking", "waitpid", "close",
                                    "restore_terminal", "cleanup"})
                 = << "io_loop_blocking", "waitpid", "close", "restore_terminal" >>
                      \o (IF IsSome(input.overlay) THEN << "cleanup" >> ELSE <<>>)
            /\ hostTerm = "orig"
            /\ "master" \notin fds.P
            /\ dirs \cap ScratchDirs = {}

\* The setup step of the supervisor that failed before fork, "none" if none did.
FailedSetupStep ==
    IF "setup_pty" \in Range(calls.P) /\ (~config.pty_enabled \/ "openpty" \in pfault)
    THEN "setup_pty"
    ELSE IF "userns" \in pfault THEN "setup_user_namespace"
    ELSE IF "namespaces" \in pfault THEN "setup_namespaces"
    ELSE "none"

\* The launch steps of the supervisor up to and including step.
StepsThrough(step) ==
    SubSeq(LaunchStepsParent, 1,
           CHOOSE i \in 1..Len(LaunchStepsParent) : LaunchStepsParent[i] = step)

\* C11: when setup_pty (PTY disabled included), setup_user_namespace or
\* setup_namespaces fails, run_container has returned the error of that step
\* with no later setup step invoked, no fork and no child, the host terminal
\* never put into raw mode, the PTY handles that were opened closed, and no
\* overlay scratch directory left.
C11_SetupFailureAborts ==
    FailedSetupStep # "none" =>
        /\ ppc = "done"
        /\ SelectVals(calls.P, LaunchSteps) = StepsThrough(FailedSetupStep)
        /\ presult = (IF FailedSetupStep = "setup_pty" THEN "PtyError" ELSE "NamespaceError")
        /\ (FailedSetupStep # "setup_pty" => ~sys.P[Len(sys.P)].ok)
        /\ cpc = "none" /\ calls.C = <<>>
        /\ "set_raw_mode" \notin Range(calls.P)
        /\ hostTerm = "orig" /\ \A i \in 1..Len(tclog) : tclog[i].attrs # "raw"
        /\ fds.P = {}
        /\ closes.P = (IF FailedSetupStep = "setup_pty" THEN <<>> ELSE << "master", "slave" >>)
        /\ dirs \cap ScratchDirs = {}

C11_Witness ==
    /\ FailedSetupStep = "setup_namespaces" /\ IsSome(input.overlay)
    /\ presult = "NamespaceError" /\ closes.P = << "master", "slave" >>

\* The paths of the command line that must exist: the root directory and,
\* for overlay, every extra layer.
RequiredPaths ==
    IF IsSome(input.overlay)
    THEN {Get(input.overlay).root_dir} \cup Range(Get(input.overlay).extra_layers)
    ELSE {ImagePath}

\* C12: when the root directory (enter, overlay) or an extra layer (overlay)
\* does not exist, the program has ended with a PathError and exit code 1
\* once it has started, and nothing was done: no PTY, no system call of the
\* namespace controller, no overlay manager or scratch directory, no mount,
\* no fork.
C12_MissingPathRejected ==
    (RequiredPaths \cap input.missing # {} /\ ppc # "run") =>
        /\ ppc = "done" /\ presult = "PathError" /\ ExitCode(presult) = 1
        /\ Len(calls.P) = 1 /\ calls.P[1] \in {"run_enter", "run_overlay"}
        /\ pty_manager.P = PtyManager_new /\ fds.P = {} /\ closes.P = <<>>
        /\ ns_manager = None /\ sys.P = <<>> /\ proc.P = ProcInit
        /\ ofs_manager.P = None /\ dirs = {} /\ mounts = <<>>
        /\ cpc = "none" /\ calls.C = <<>>
        /\ hostTerm = "orig" /\ tclog = <<>>

C12_Witness ==
    /\ IsSome(input.overlay)
    /\ input.missing = {LayerPath(Layers[MaxExtras])}
    /\ ppc = "done" /\ presult = "PathError"

\* The calls of PtyManager::close and of PtyManager::restore_terminal, made
\* by run_container or by Drop.
CloseSteps == {"close", "drop:close"}
RestoreSteps == {"restore_terminal", "drop:restore_terminal"}

\* C13: in the supervisor, every call of restore_terminal made after the
\* proxy loop was entered (by run_container or by Drop, on the path where
\* waitpid fails included) comes after a call of close made after the loop,
\* and once such a call has been made the master is closed.
C13_CloseBeforeRestore ==
    LET c == calls.P
        after(i) == \E k \in 1..(i - 1) : c[k] = "io_loop_blocking"
    IN  /\ \A i \in 1..Len(c) :
              (c[i] \in RestoreSteps /\ after(i)) =>
                  \E j \in 1..(i - 1) : c[j] \in CloseSteps /\ after(j)
        /\ (\E i \in 1..Len(c) : c[i] \in RestoreSteps /\ after(i)) =>
              ("master" \notin fds.P /\ "master" \in Range(closes.P))

C13_Witness ==
    /\ ppc = "done" /\ "waitpid" \in pfault /\ presult = "ProcessError"
    /\ "drop:restore_terminal" \in Range(calls.P) /\ "close" \notin Range(calls.P)
    /\ input.stdin_tty /\ Len(tclog) = 2

\* The step of the supervisor that follows its call of fork, if any.
AfterFork ==
    LET i == CHOOSE k \in 1..Len(calls.P) : calls.P[k] = "fork"
    IN  IF i < Len(calls.P) THEN << calls.P[i + 1] >> ELSE <<>>

\* C14: the child exists only with master and slave allocated by setup_pty
\* before the fork; the first step of the supervisor after the fork is
\* closing its slave handle and the first step of the child is closing its
\* master handle; once made, the supervisor holds no slave handle and the
\* child no master handle, the supervisor holding the master until it closes
\* it after the loop and the child the slave until it is attached as its
\* standard streams.
C14_PtyHandoff ==
    Forked =>
        /\ SelectVals(calls.P, {"setup_pty", "fork"}) = << "setup_pty", "fork" >>
        /\ pty_manager.C.master_fd = Some("master") \/ cresult # "none"
        /\ AfterFork \in {<<>>, << "close_slave" >>}
        /\ (calls.C # <<>> => calls.C[1] = "close_master")
        /\ (ppc # "close_slave" => "slave" \notin fds.P)
        /\ (cpc # "close_master" => "master" \notin fds.C)
        /\ (ppc = "close_slave" => fds.P = {"master", "slave"})
        /\ (cpc = "close_master" => fds.C = {"master", "slave"})
        /\ (ppc \in {"set_raw_mode", "io_loop", "select", "io_stdin", "io_master",
                      "waitpid", "pty_close"} => fds.P = {"master"})
        /\ (cpc \in {"setup_mount_namespace", "overlay", "setup_basic_mounts", "chroot",
                      "setup_slave"} => fds.C = {"slave"})
        /\ (cpc \in {"set_no_new_privs", "exec", "running"} =>
                fds.C = {} /\ proc.C.stdio = {"stdin", "stdout", "stderr"})

C14_Witness ==
    /\ cpc = "setup_basic_mounts" /\ ppc = "select"
    /\ fds.P = {"master"} /\ fds.C = {"slave"}

\* The prctl(PR_SET_NO_NEW_PRIVS) calls in the child's log, and what the
\* child did after the call of set_no_new_privs.
IsNoNewPrivs(r) == r.op = "prctl" /\ r.arg = "PR_SET_NO_NEW_PRIVS"

StepsAfter(c, step) ==
    IF step \in Range(c)
    THEN SubSeq(c, (CHOOSE k \in 1..Len(c) : c[k] = step) + 1, Len(c))
    ELSE <<>>

\* C15: with no_new_privs enabled, a child that was exec'd has NO_NEW_PRIVS
\* set by a prctl that succeeded before the execvp; a prctl that failed ends
\* the child with an error and no execvp; and after set_no_new_privs the
\* child makes no step but execute_command (no mount, chroot or slave step),
\* its system calls after the prctl being the execvp alone and the mounts
\* all made before it.
C15_NoNewPrivsLast ==
    config.no_new_privs =>
        LET nnp == SelectSeq(sys.C, IsNoNewPrivs)
            k == CHOOSE i \in 1..Len(sys.C) : IsNoNewPrivs(sys.C[i])
        IN  /\ Execd => (proc.C.no_new_privs /\ nnp # <<>> /\ nnp[1].ok)
            /\ Len(nnp) <= 1
            /\ (nnp # <<>> /\ ~nnp[1].ok) =>
                   /\ cresult = "NamespaceError" /\ cstatus = "exit1" /\ ~Execd
                   /\ \A i \in 1..Len(sys.C) : sys.C[i].op # "execvp"
            /\ \A i \in 1..Len(sys.C) : sys.C[i].op = "execvp" => (nnp # <<>> /\ k < i)
            /\ nnp # <<>> => \A i \in (k + 1)..Len(sys.C) : sys.C[i].op = "execvp"
            /\ Range(StepsAfter(calls.C, "set_no_new_privs"))
                  \subseteq ({"execute_command"} \cup Range(PtyDrop))
            /\ proc.C.no_new_privs => cpc \in {"exec", "running", "exited"}

C15_Witness ==
    /\ config.no_new_privs /\ cpc = "running" /\ proc.C.no_new_privs
    /\ Len(mounts) >= 4 /\ proc.C.chrooted

\* The errors run_container can return.
Errors ==
    { "NamespaceError", "MountError", "OverlayFsError", "PtyError", "ChrootError",
      "ExecError", "PathError", "ProcessError" }

\* The command line of the contained command, as given.
CommandLine == << input.command >> \o input.args

HasNul == \E i \in 1..Len(CommandLine) : "NUL" \in Range(CommandLine[i])

IsExecvp(r) == r.op = "execvp"

\* What the child's own code has done, as far as it is logged.
ChildTrace == << calls.C, sys.C, closes.C, pty_manager.C, ofs_manager.C >>

\* C16: run_container never returns success in the child: what it returns is
\* an error, the child then exits with status 1, and no execvp has succeeded;
\* a zero byte in the command or in an argument makes execute_command return
\* ExecError without calling execvp; execvp is called at most once, with the
\* command as the file and the command followed by the arguments, in order,
\* as the argument vector; and once execvp has succeeded no code of the
\* program runs in the child any more.
C16_ChildOnlyFailsOrExecs ==
    /\ [](LET ex == SelectSeq(sys.C, IsExecvp)
          IN  /\ cresult # "none" =>
                    /\ cresult \in Errors /\ cstatus = "exit1" /\ ~Execd
                    /\ \A i \in 1..Len(ex) : ~ex[i].ok
              /\ Len(ex) <= 1
              /\ \A i \in 1..Len(ex) :
                    ex[i].arg = input.command /\ ex[i].data = CommandLine
              /\ (HasNul /\ "execute_command" \in Range(calls.C)) =>
                    (cresult = "ExecError" /\ ex = <<>>)
              /\ Execd =>
                    /\ cresult = "none" /\ ex # <<>> /\ ex[1].ok
                    /\ sys.C[Len(sys.C)] = ex[1]
                    /\ calls.C[Len(calls.C)] = "execute_command")
    /\ [][Execd => UNCHANGED ChildTrace]_vars

C16_Witness ==
    /\ cpc = "running"
    /\ input.args = << <<"b", "c">>, <<"a">> >>
    /\ sys.C[Len(sys.C)].data = << <<"s", "h">>, <<"b", "c">>, <<"a">> >>

\* setup_basic_mounts has returned success in the child.
BasicMountsDone == cpc = "chroot" \/ "chroot" \in Range(calls.C)

\* C17: once setup_basic_mounts has succeeded, each configured bind mount
\* with an absolute destination D was mounted, in the configured order after
\* the basic mounts, by the child, from its source as given, onto new_root
\* followed by the components of D, a directory that exists, with no
\* filesystem type and with the flags MS_BIND, MS_REC iff recursive and
\* MS_RDONLY iff readonly, and no other.
C17_BindMountTarget ==
    BasicMountsDone =>
        LET nb == Len(config.bind_mounts)
        IN  /\ Len(mounts) >= nb
            /\ \A i \in 1..nb :
                  LET b == config.bind_mounts[i]
                      r == mounts[Len(mounts) - nb + i]
                  IN  b.destination.abs =>
                        /\ r.target = [abs |-> final_root.abs,
                                       comps |-> final_root.comps \o b.destination.comps]
                        /\ r.source = b.source
                        /\ r.fstype = "" /\ r.options = None /\ r.by = "C"
                        /\ "MS_BIND" \in r.flags
                        /\ ("MS_REC" \in r.flags) = b.recursive
                        /\ ("MS_RDONLY" \in r.flags) = b.readonly
                        /\ r.flags \subseteq {"MS_BIND", "MS_REC", "MS_RDONLY"}
                        /\ r.target \in dirs

C17_Witness ==
    /\ BasicMountsDone /\ IsSome(input.overlay)
    /\ config.bind_mounts # <<>> /\ config.bind_mounts[1].destination.abs
    /\ mounts[Len(mounts)].target = Abs(<<"tmp", "merged", "data", "y">>)

\* The directories that were removed, and those that were ever made.
RemovedDirs == {rmlog[i].dir : i \in 1..Len(rmlog)}
EverMade == dirs \cup RemovedDirs

OverlayMounted == \E i \in 1..Len(mounts) : mounts[i].fstype = "overlay"

\* C18: an ephemeral upper directory is made if and only if no persist path
\* was given; when the supervisor has returned from a run whose overlay was
\* mounted and cleaned up, neither the ephemeral upper nor the work nor the
\* merged scratch directory exists; and the persistent upper directory is
\* never removed.
C18_UpperLifecycle ==
    IsSome(input.overlay) =>
        /\ IsSome(Get(input.overlay).persist) => ScratchDir("upper") \notin EverMade
        /\ (OverlayMounted /\ ~IsSome(Get(input.overlay).persist))
              => ScratchDir("upper") \in EverMade
        /\ (ppc = "done" /\ "cleanup" \in Range(calls.P) /\ OverlayMounted)
              => dirs \cap ScratchDirs = {}
        /\ PersistPath \notin RemovedDirs
        /\ (OverlayMounted /\ IsSome(Get(input.overlay).persist)) => PersistPath \in dirs

\* C18 without the clause on what is left after cleanup.
C18_UpperMadeAndPersistKept ==
    IsSome(input.overlay) =>
        /\ IsSome(Get(input.overlay).persist) => ScratchDir("upper") \notin EverMade
        /\ (OverlayMounted /\ ~IsSome(Get(input.overlay).persist))
              => ScratchDir("upper") \in EverMade
        /\ PersistPath \notin RemovedDirs
        /\ (OverlayMounted /\ IsSome(Get(input.overlay).persist)) => PersistPath \in dirs

\* C19: for the PTY manager of either process in any reachable state, a call
\* of close() right after a call of close() passes no descriptor to the
\* close system call and leaves the manager as it was, both handles absent;
\* and in a run where close() was called by run_container and then again by
\* Drop, the supervisor's close system calls are those of close_slave and of
\* the first close() alone.
C19_CloseIdempotent ==
    /\ \A p \in {"P", "C"} :
          LET once == Closed(pty_manager[p])
          IN  /\ once.master_fd = None /\ once.slave_fd = None
              /\ CloseCalls(once) = <<>>
              /\ Closed(once) = once
    /\ ("close" \in Range(calls.P) /\ "drop:close" \in Range(calls.P)) =>
          /\ closes.P = << "slave", "master", "slave" >>
          /\ pty_manager.P.master_fd = None /\ pty_manager.P.slave_fd = None
          /\ fds.P = {}

C19_Witness ==
    /\ ppc = "done" /\ presult = "Ok"
    /\ SelectVals(calls.P, CloseSteps) = << "close", "drop:close" >>
    /\ closes.P = << "slave", "master", "slave" >>

\* Everything but the positions of the two processes and the log of the
\* steps invoked: the system calls made and the state they act on.
Effects ==
    << pty_manager, ns_manager, ofs_manager, fds, closes, sys, proc, hostTerm,
       tclog, mounts, dirs, rmlog, ioVars, presult, cstatus, wait_status, cresult,
       pfault >>

\* C20: a step of setup_parent_death_signal, setup_user_namespace,
\* setup_mount_namespace or set_no_new_privs whose feature is disabled in the
\* configuration goes on to the next step of the launch (it returns success)
\* with no system call made and no state changed.
C20_DisabledToggleNoEffect ==
    [][ /\ (ppc = "pdeathsig" /\ ppc' # ppc /\ ~config.parent_death_signal)
              => (ppc' = "userns" /\ UNCHANGED Effects)
        /\ (ppc = "userns" /\ ppc' # ppc /\ ~config.user_namespace)
              => (ppc' = "namespaces" /\ UNCHANGED Effects)
        /\ (cpc = "setup_mount_namespace" /\ cpc' # cpc /\ ~config.mount_namespace)
              => (cpc' = "overlay" /\ UNCHANGED Effects)
        /\ (cpc = "set_no_new_privs" /\ cpc' # cpc /\ ~config.no_new_privs)
              => (cpc' = "exec" /\ UNCHANGED Effects) ]_vars

C20_Witness ==
    /\ ~config.parent_death_signal /\ ppc = "userns"
    /\ calls.P[Len(calls.P)] = "setup_parent_death_signal"
    /\ sys.P = <<>> /\ ~proc.P.pdeathsig

\* The last system call a step of process p appended, if it appended any.
Appended(p) ==
    IF Len(sys'[p]) > Len(sys[p]) THEN Some(sys'[p][Len(sys'[p])]) ELSE None

\* This step's last system call in process p is a failed call of op on arg.
FailedNow(p, op, arg) ==
    /\ IsSome(Appended(p))
    /\ Get(Appended(p)).op = op /\ Get(Appended(p)).arg = arg
    /\ ~Get(Appended(p)).ok

\* C21: a failure of a best-effort step, the prctl installing the
\* parent-death signal, setdomainname, or the TIOCSCTTY ioctl, produces no
\* error return and does not stop the launch: the step that made the failed
\* call goes on to the next step of the sequence (setup_user_namespace, fork,
\* set_no_new_privs) with no result set and no fault met.
C21_BestEffortOnlyWarn ==
    [][ /\ FailedNow("P", "prctl", "PR_SET_PDEATHSIG")
              => (ppc' = "userns" /\ presult' = "none" /\ pfault' = pfault)
        /\ (IsSome(config.domainname)
              /\ FailedNow("P", "setdomainname", Get(config.domainname)))
              => (ppc' = "fork" /\ presult' = "none" /\ pfault' = pfault)
        /\ FailedNow("C", "ioctl", "TIOCSCTTY")
              => (cpc' = "set_no_new_privs" /\ cresult' = "none"
                    /\ cstatus' = "none") ]_vars

\* A failed call of op recorded in the system calls cs.
HasFailed(cs, op) == \E i \in 1..Len(cs) : cs[i].op = op /\ ~cs[i].ok

C21_Witness ==
    /\ HasFailed(sys.P, "prctl") /\ HasFailed(sys.P, "setdomainname")
    /\ HasFailed(sys.C, "ioctl")
    /\ Execd /\ cpc = "running"

\* A value was written by to_file and then from_file was called and returned Ok.
RoundTripped == IsSome(conf) /\ saved = "Ok" /\ IsSome(loaded) /\ IsSome(file)
ReadBack == Get(loaded).res = "Ok"

\* C22: a Config value written by to_file and read back by from_file is
\* returned equal to the original, field for field; and the default
\* configuration read back has overlayfs, the user, mount, pid and uts
\* namespaces, the PTY, the parent-death signal and no-new-privs on, the
\* network namespace off, and a PTY of 24 rows by 80 columns.
C22_ConfigRoundTrip ==
    /\ \A c \in ConfigValues : from_str(to_string_pretty(c)) = Ok(c)
    /\ (RoundTripped /\ ReadBack) => Get(loaded).val = conf
    /\ (RoundTripped /\ ReadBack /\ conf = Some(Config_default)) =>
          LET c == Get(Get(loaded).val)
          IN  /\ \A k \in {"overlayfs", "user_namespace", "mount_namespace",
                           "pid_namespace", "uts_namespace", "pty_enabled",
                           "parent_death_signal", "no_new_privs"} : c.features[k]
              /\ ~c.features.network_namespace
              /\ c.pty.default_rows = 24 /\ c.pty.default_cols = 80

C22_Witness ==
    /\ RoundTripped /\ ReadBack
    /\ Get(conf).namespaces.hostname = None
    /\ Get(conf).namespaces.domainname = Some("dom")
    /\ Get(loaded).val = conf

\* C23: an EINTR result never ends io_loop_blocking, whether it comes from
\* select, from the read of stdin or from the read of the master: when the
\* loop has ended, no read of it was interrupted, and a step in which a call
\* is interrupted leaves the supervisor inside the loop.
C23_EintrNeverEndsLoop ==
    LoopEnded => pfault \cap {"stdin_EINTR", "master_EINTR"} = {}

\* C24: on every path after a successful fork the supervisor calls waitpid
\* and the child has terminated before run_container returns in the
\* supervisor, a failure of set_raw_mode included.
C24_ParentReapsChild ==
    (Forked /\ ppc = "done") => ("waitpid" \in Range(calls.P) /\ ChildTerminated)

\* C25: the scratch directories of the overlay, merged and work (and upper
\* without a persist path), exist from OverlayFsManager::new on, in the
\* supervisor, before fork and before any namespace is unshared; the final
\* root handed to run_container is that existing merged directory; and a
\* failure to make scratch ends the launch with no namespace unshared.
C25_ScratchMadeByNew ==
    /\ (IsSome(ofs_manager.P) /\ ppc # "done") =>
          /\ {ScratchDir("merged"), ScratchDir("work")} \subseteq dirs
          /\ get_final_root \in dirs
          /\ Get(input.overlay).persist = None => ScratchDir("upper") \in dirs
    /\ cresult = "OverlayFsError" => proc.C.unshared = {}

\* The namespaces setup_namespaces is configured to create.
EnabledNamespaces ==
    (IF config.pid_namespace THEN {"pid"} ELSE {})
      \cup (IF config.uts_namespace THEN {"uts"} ELSE {})
      \cup (IF config.network_namespace THEN {"net"} ELSE {})

\* C26: when the caller's uid is 0, setup_user_namespace makes no unshare
\* and writes none of uid_map, setgroups, gid_map; setup_namespaces still
\* creates every enabled PID, UTS and network namespace, and when its calls
\* succeed the launch goes on to fork.
C26_RootSkipsUserNamespace ==
    input.ids.uid = 0 =>
        /\ \A i \in 1..Len(sys.P) : ~IsUserNsCall(sys.P[i])
        /\ "user" \notin proc.P.unshared
        /\ proc.P.uid = 0
        /\ ("setup_namespaces" \in Range(calls.P) /\ "namespaces" \notin pfault) =>
              /\ proc.P.unshared = EnabledNamespaces
              /\ ppc = "fork" \/ "fork" \in Range(calls.P)

C26_Witness ==
    /\ input.ids.uid = 0 /\ config.user_namespace /\ config.network_namespace
    /\ "setup_user_namespace" \in Range(calls.P)
    /\ Forked /\ proc.P.unshared = {"pid", "uts", "net"}
    /\ \A i \in 1..Len(sys.P) : ~IsUserNsCall(sys.P[i])

\* The targets setup_basic_mounts is to mount on, in order.
UnderRoot(name) == PathJoin(final_root, Rel(<<name>>))
ExpectedTargets ==
    (IF config.mount_proc THEN << UnderRoot("proc") >> ELSE <<>>)
      \o (IF config.mount_sys THEN << UnderRoot("sys") >> ELSE <<>>)
      \o (IF config.mount_dev THEN << UnderRoot("dev") >> ELSE <<>>)
      \o (IF config.mount_tmp THEN << UnderRoot("tmp") >> ELSE <<>>)
      \o [i \in 1..Len(config.bind_mounts) |-> BindDest(final_root, config.bind_mounts[i])]

\* C27: setup_basic_mounts mounts /proc, /sys, /dev, /tmp, each when its
\* toggle is on, then the configured bind mounts in the order of the
\* configuration; at the first failure it returns MountError with no later
\* mount made, and the mounts already made stay mounted.
C27_BasicMountsInOrder ==
    [][ (cpc = "setup_basic_mounts" /\ cpc' # cpc) =>
          LET new == SubSeq(mounts', Len(mounts) + 1, Len(mounts'))
          IN  /\ IsPrefix(mounts, mounts')
              /\ IsPrefix([i \in 1..Len(new) |-> new[i].target], ExpectedTargets)
              /\ cpc' = "chroot" => (Len(new) = Len(ExpectedTargets) /\ cresult' = "none")
              /\ cpc' # "chroot" =>
                    (cresult' = "MountError" /\ Len(new) < Len(ExpectedTargets))
              /\ sys'.C = sys.C ]_vars

C27_Witness ==
    /\ cresult = "MountError" /\ Len(config.bind_mounts) = 2
    /\ config.bind_mounts[1] # config.bind_mounts[2]
    /\ Len(mounts) >= 5
    /\ mounts[Len(mounts)].target = BindDest(final_root, config.bind_mounts[1])
    /\ mounts[Len(mounts) - 1].target = UnderRoot("tmp")
    /\ \E i \in 1..Len(mounts) : mounts[i].target = UnderRoot("proc")

\* C28: OverlayFsManager::cleanup makes no unmount call, it only removes the
\* scratch directories: no process of a launch ever calls umount2.
C28_CleanupNoUnmount ==
    \A p \in {"P", "C"} : \A i \in 1..Len(sys[p]) : sys[p][i].op # "umount2"

\* The calls that change the hostname or the domainname.
IsNameCall(r) == r.op \in {"sethostname", "setdomainname"}

\* C29: sethostname and setdomainname are called only with the UTS namespace
\* enabled and only after the unshare that created the UTS namespace
\* succeeded, so the names of the host are never changed; the hostname set is
\* the configured one, "rootbox" when none is configured, and the domainname
\* set is the configured one.
C29_NamesOnlyInUtsNamespace ==
    /\ \A i \in 1..Len(sys.C) : ~IsNameCall(sys.C[i])
    /\ \A i \in 1..Len(sys.P) :
          IsNameCall(sys.P[i]) =>
              /\ config.uts_namespace
              /\ \E j \in 1..(i - 1) :
                    /\ sys.P[j].op = "unshare" /\ sys.P[j].ok
                    /\ "CLONE_NEWUTS" \in sys.P[j].flags
              /\ "uts" \in proc.P.unshared
              /\ sys.P[i].op = "sethostname" =>
                    sys.P[i].arg = (IF config.hostname = None THEN "rootbox"
                                    ELSE config.hostname[1])
              /\ sys.P[i].op = "setdomainname" => config.domainname = << sys.P[i].arg >>

C29_Witness ==
    /\ config.hostname = None /\ config.uts_namespace /\ Forked
    /\ \E i \in 1..Len(sys.P) :
          sys.P[i].op = "sethostname" /\ sys.P[i].arg = "rootbox" /\ sys.P[i].ok

\* The child is blocked writing to a PTY that is full.
ChildBlockedOnPty ==
    /\ cpc = "running" /\ cmdPos < Len(input.cmd_out)
    /\ "master" \in fds.P /\ Len(ptyOut) >= PtyCap

\* C30: the supervisor and the child never deadlock: the supervisor is never
\* blocked in waitpid, its loop ended, while the running child is blocked
\* writing to a PTY whose master is open and no longer read; whenever the
\* child is running and the master is open in the supervisor, the loop of
\* the supervisor has not ended.
C30_NoDeadlock ==
    /\ ~(ppc = "waitpid" /\ ChildBlockedOnPty)
    /\ (cpc = "running" /\ "master" \in fds.P) => ~LoopEnded

\* C31: only the supervisor changes the attributes of the host terminal: the
\* child makes no tcsetattr on it on any path, its failures before
\* setup_slave and the drop of its PtyManager included; so while the loop of
\* the supervisor runs on a host terminal, the terminal is in raw mode.
C31_OnlyParentSetsTerminal ==
    /\ \A i \in 1..Len(tclog) : tclog[i].by = "P"
    /\ (LoopEntered /\ ~LoopEnded /\ input.stdin_tty) => hostTerm = "raw"

\* How many times process p passed the descriptor fd to close().
TimesClosed(p, fd) == Cardinality({i \in 1..Len(closes[p]) : closes[p][i] = fd})

\* C32: within one process no PTY descriptor is passed to close() more than
\* once, on the success and the error paths and with the close made when the
\* PtyManager is dropped; a supervisor that returned Ok closed the slave
\* once and the master once.
C32_NoDoubleClose ==
    /\ \A p \in {"P", "C"}, fd \in {"master", "slave"} : TimesClosed(p, fd) <= 1
    /\ (ppc = "done" /\ presult = "Ok") =>
          (TimesClosed("P", "slave") = 1 /\ TimesClosed("P", "master") = 1)

\* set_raw_mode put the host terminal into raw mode.
SetRaw == \E i \in 1..Len(tclog) : tclog[i].by = "P" /\ tclog[i].attrs = "raw" /\ tclog[i].ok

\* C33: the supervisor puts the host terminal into raw mode only when
\* setup_pty captured its original attributes: in every state, the terminal
\* having been set raw by set_raw_mode implies that original_termios is
\* present, also when stdin is a terminal whose attributes could not be read
\* in setup_pty.
C33_RawOnlyWithCapturedAttrs ==
    SetRaw => IsSome(pty_manager.P.original_termios)

\* The bytes the supervisor has read from host stdin and from the master;
\* what the command wrote and is not in the PTY has been read.
ReadFromStdin == Prefix(input.stdin_data, stdinPos)
ReadFromMaster == Prefix(input.cmd_out, cmdPos - Len(ptyOut))

\* C34: the proxy preserves the byte streams: the bytes written to the
\* master are a prefix of the bytes read from host stdin and the bytes
\* written to host stdout are a prefix of the bytes read from the master,
\* nothing reordered or duplicated; at most one chunk read is not forwarded,
\* and only when a short write ended the loop.
C34_StreamsPreserved ==
    /\ IsPrefix(masterW, ReadFromStdin)
    /\ Len(ReadFromStdin) - Len(masterW) <= MaxChunk
    /\ masterW # ReadFromStdin => ("master_write" \in pfault /\ LoopEnded)
    /\ IsPrefix(stdoutW, input.cmd_out)
    /\ "master" \in fds.P =>
          /\ IsPrefix(stdoutW, ReadFromMaster)
          /\ Len(ReadFromMaster) - Len(stdoutW) <= MaxChunk
          /\ stdoutW # ReadFromMaster => ("stdout_write" \in pfault /\ LoopEnded)

C34_Witness ==
    /\ Len(input.stdin_data) = MaxChunk /\ stdinPos = MaxChunk
    /\ masterW = Prefix(input.stdin_data, 1)
    /\ "master_write" \in pfault /\ LoopEnded
    /\ stdoutW # <<>> /\ "master" \in fds.P

====
